---- MODULE Spec2Model ----
(***************************************************************************)
(* Model of the chatstack backend's authentication subsystem:             *)
(*   - OAuthRepository (oauth_states / code_verifiers collections),       *)
(*   - UserRepository (users collection, unique on id and on email),      *)
(*   - AuthService.initiate_google_login / process_google_callback,       *)
(*   - the google_callback_endpoint handler of api/v1/endpoints/auth.py,  *)
(*   - AuthService.check_rate_limit and the check_rate_limit dependency   *)
(*     of auth.py, sequentially, concurrently and with a full table,      *)
(*   - AuthService._verify_id_token under the ENVIRONMENT flag,           *)
(*   - the session operations verify_google_token_direct and              *)
(*     refresh_user_token, also with a provider that does not answer.     *)
(*                                                                         *)
(* Every invocation runs in a slot of Procs and is interleaved with the   *)
(* others at the granularity of one store operation (find_one,            *)
(* update_one, insert_one, delete_one, delete_many) or one provider call. *)
(* Local computation is folded into the store operation or provider call  *)
(* that follows it.  Time is an integer number of seconds.                *)
(*                                                                         *)
(* Modelling assumptions:                                                  *)
(*   - secrets.token_urlsafe(32) never repeats a value, and a callback    *)
(*     can only carry a state that a finished login has handed out, or a  *)
(*     value that was never generated (BogusState);                       *)
(*   - the document store is available (no store operation raises, other  *)
(*     than DuplicateKeyError from the unique indexes of users);          *)
(*   - expires_at is stored as a float, which the TTL index of            *)
(*     oauth_repository.py:15,17 ignores, so no background expiry runs.   *)
(***************************************************************************)
EXTENDS Integers, Sequences, FiniteSets, TLC

(* ------------------------------ bounds -------------------------------- *)
\* number of invocation slots that may run concurrently
NumProcs == 2
\* number of distinct state tokens secrets.token_urlsafe can hand out
MaxStates == 2
\* total number of invocations (logins and callbacks) in one behaviour
MaxCalls == 3
\* number of times the clock advances in one behaviour
MaxTicks == 1
\* total number of check_rate_limit calls in one behaviour of the rate limiter
MaxChecks == 22
\* number of times the clock advances in one behaviour of the rate limiter
MaxRateTicks == 2

\* number of create_access_token and verification calls in one behaviour of
\* the token codec
MaxTokenCalls == 3
\* number of times the clock advances in one behaviour of the token codec
MaxTokenTicks == 3
\* total number of direct verifications and refreshes in one behaviour
MaxSessionCalls == 2
\* total number of requests in one behaviour of the HTTP endpoints
MaxHttpCalls == 2
\* total number of callbacks that reach the user writes in one behaviour
MaxUserCalls == 2
\* total number of repository calls in one behaviour of the repository
MaxRepoCalls == 3
\* number of check_rate_limit calls in one behaviour of the crowded limiter
MaxPurgeChecks == 3
\* total number of check_rate_limit calls in one behaviour of the concurrent limiter
MaxRaceCalls == 2
\* total number of invocations in one behaviour with a silent provider
MaxLiveCalls == 2
\* total number of callbacks in one behaviour with two open login attempts
MaxAttemptCalls == 2
\* number of check_rate_limit calls in one behaviour of the two-client limiter
MaxWindowChecks == 4
\* chat and conversation requests started in a behaviour
MaxChatCalls == 2
\* chunks one llm.stream call delivers at most
MaxChunks == 2
\* streams that run at the same time (the other requests are served meanwhile)
MaxStreams == 1

(* ------------------------- program constants -------------------------- *)
\* oauth_repository.py:23,65  expires_at = time.time() + 600
STATE_TTL == 600
\* auth_service.py:36  access_token_expire_minutes = 60
ACCESS_TOKEN_EXPIRE_MINUTES == 60
\* auth_service.py:40
RATE_LIMIT_MAX_REQUESTS == 20
\* auth_service.py:41
RATE_LIMIT_WINDOW == 60
\* auth_service.py:137  if len(self.rate_limit_store) > 1000
RATE_LIMIT_MAX_CLIENTS == 1000
\* status.HTTP_400_BAD_REQUEST, auth_service.py:200
HTTP_400_BAD_REQUEST == 400
\* status.HTTP_500_INTERNAL_SERVER_ERROR, auth_service.py:264
HTTP_500_INTERNAL_SERVER_ERROR == 500
\* the status of a successful JSON response
HTTP_200_OK == 200
\* status.HTTP_401_UNAUTHORIZED, auth_service.py:391
HTTP_401_UNAUTHORIZED == 401
\* status.HTTP_429_TOO_MANY_REQUESTS, auth.py:142
HTTP_429_TOO_MANY_REQUESTS == 429
\* the status of a RedirectResponse built without status_code, auth.py:200,380
HTTP_307_TEMPORARY_REDIRECT == 307

(* ------------------------------ domains ------------------------------- *)
Procs == 1..NumProcs
States == 1..MaxStates
\* a state value that no login ever generated
BogusState == 0
\* amounts by which the clock advances: a second, up to an expiry, past it
TimeSteps == {1, STATE_TTL, STATE_TTL + 1}
Subs == {"u1", "u2"}
Emails == {"e1", "e2"}
\* Python None where a string is expected
None == "None"
RefreshTokens == {"r1", "r2"}
\* client identifiers (request.client.host)
Clients == {"ip1", "ip2"}
\* amounts by which the clock advances in the behaviours of the rate limiter:
\* a second, up to the end of a window, a whole window
RateTimeSteps == {1, RATE_LIMIT_WINDOW - 1, RATE_LIMIT_WINDOW}
\* amounts by which the clock advances in the behaviours of the token codec:
\* a second, up to a second before the expiry of a token, its whole lifetime
TokenTimeSteps == {1, ACCESS_TOKEN_EXPIRE_MINUTES * 60 - 1,
                   ACCESS_TOKEN_EXPIRE_MINUTES * 60}
\* amounts by which the clock advances in the behaviours of the session
\* operations: a second, and past the expiry of a session issued before
SessionTimeSteps == {1, ACCESS_TOKEN_EXPIRE_MINUTES * 60 + 1}
\* a missing document (find_one returned None)
NoDoc == [absent |-> TRUE]
\* the user-info responses the provider can give (status 200)
\* (any subject with any e-mail; one profile has no picture)
UserInfoResponses ==
    {[sub |-> u, email |-> e, name |-> "n1",
      picture |-> IF e = "e1" THEN "p1" ELSE None] : u \in Subs, e \in Emails}

VARIABLES
    now,             \* time.time()
    ticks,           \* how often the clock advanced (bounds the behaviour)
    calls,           \* how many invocations started (bounds the behaviour)
    oauth_states,    \* db.oauth_states: state -> document or NoDoc
    code_verifiers,  \* db.code_verifiers: state -> document or NoDoc
    users,           \* db.users: id -> document or NoDoc
    user_records,    \* db.users: id -> number of documents with that id
    issued,          \* states generated so far by secrets.token_urlsafe
    handed,          \* state -> what the finished login put in the URL, or NoDoc
    op,              \* per slot: the running or last invocation: "none", "login",
                     \*   "callback" (the service) or "endpoint" (the HTTP handler)
    pc,              \* per slot: position in the running invocation, or "idle"
    locals,          \* per slot: the invocation's arguments and local variables
    result,          \* per slot: what the last finished invocation returned or raised
    log,             \* per slot: history of the steps the invocation has taken
    late,            \* per slot: the invocation started after its state was consumed
    sessions,        \* state -> number of callbacks that returned a session token
    attempts,        \* state -> number of callbacks started with it
    rate_limit_store, \* AuthService.rate_limit_store: client -> list of timestamps
    rate_calls,      \* how many check_rate_limit calls were made (bounds the behaviour)
    rate_last,       \* the last check_rate_limit call: client, time and answer
    rate_accepted,   \* client -> times of all its accepted calls (never pruned)
    minted,          \* the last create_access_token call: its claims, time and token
    checked,         \* the last verify_access_token / get_current_user_from_cookie
                     \*   call: its input, its time and how it ended
    environment,     \* os.getenv("ENVIRONMENT"): None when the variable is unset
    idcheck,         \* the last _verify_id_token call: its token and how it ended
    conversations,   \* db.conversations: id -> document or NoDoc (deleted)
    events,          \* per slot: the events the chat stream has yielded so far
    chat             \* per slot: the arguments and local variables of the chat or
                     \*   conversation request, and the repository calls it made

vars == <<now, ticks, calls, oauth_states, code_verifiers, users, user_records,
          issued, handed,
          op, pc, locals, result, log, late, sessions, attempts, rate_limit_store,
          rate_calls, rate_last, rate_accepted, minted, checked, environment,
          idcheck, conversations, events, chat>>

store_vars == <<oauth_states, code_verifiers, users, user_records>>
hist_vars == <<late, sessions, attempts>>
rate_vars == <<rate_limit_store, rate_calls, rate_last, rate_accepted>>
token_vars == <<minted, checked>>
env_vars == <<environment, idcheck>>
chat_vars == <<conversations, events, chat>>
flow_vars == <<calls, store_vars, issued, handed, op, pc, locals, result, log, hist_vars>>

(* --------------------- OAuthRepository (pure parts) -------------------- *)
\* collection.find_one({"state": state})
FindOne(coll, state) == IF state \in DOMAIN coll THEN coll[state] ELSE NoDoc

\* mutant: delete_one that deletes nothing
DeleteOneKeeps(coll, state) == coll

\* mutant: the filter of the delete is left out
DeleteOneAndOthers(coll, state) == [s \in DOMAIN coll |-> NoDoc]

\* collection.delete_one({"state": state})
DeleteOne(coll, state) ==
    [s \in DOMAIN coll |-> IF s = state THEN NoDoc ELSE coll[s]]

\* collection.update_one({"state": state}, {"$set": doc}, upsert=True)
UpsertOne(coll, state, doc) ==
    [s \in DOMAIN coll |-> IF s = state THEN doc ELSE coll[s]]

\* mutant: the test for a missing record is left out
IsNoneNever(doc) == FALSE

\* "if not state_data" (auth_service.py:198), "if not code_verifier" (:206):
\* the lookup returned None
IsNone(doc) == doc = NoDoc

\* verifier_data.get("code_verifier") if verifier_data else None
VerifierOf(doc) == IF doc = NoDoc THEN <<"verifier", 0>> ELSE doc.code_verifier

\* mutant: the expiry test is one second late
IsExpiredLate(doc, t) == doc # NoDoc /\ t > doc.expires_at + 1

\* the test of get_oauth_state / get_code_verifier:
\*   state_data and time.time() > state_data.get("expires_at", 0)
IsExpired(doc, t) == doc # NoDoc /\ t > doc.expires_at

\* the document save_oauth_state writes
StateDoc(state, created_at, t) ==
    [state |-> state, created_at |-> created_at, expires_at |-> t + STATE_TTL]

\* mutant: the verifier is saved without the time to live
VerifierDocNoTtl(state, code_verifier, t) ==
    [state |-> state, code_verifier |-> code_verifier,
     created_at |-> t, expires_at |-> t]

\* the document save_code_verifier writes
VerifierDoc(state, code_verifier, t) ==
    [state |-> state, code_verifier |-> code_verifier,
     created_at |-> t, expires_at |-> t + STATE_TTL]

\* mutant: the sweep also deletes the records that expire at this instant
CleanExpiredInclusive(coll, t) ==
    [s \in DOMAIN coll |->
        IF coll[s] # NoDoc /\ coll[s].expires_at <= t THEN NoDoc ELSE coll[s]]

\* clean_expired_oauth_states: delete_many({"expires_at": {"$lt": time.time()}})
CleanExpired(coll, t) ==
    [s \in DOMAIN coll |->
        IF coll[s] # NoDoc /\ coll[s].expires_at < t THEN NoDoc ELSE coll[s]]

\* result.deleted_count of a delete_many that turned coll into after
DeletedCount(coll, after) ==
    Cardinality({s \in DOMAIN coll : coll[s] # NoDoc /\ after[s] = NoDoc})

\* mutant: the verifier itself is used as the challenge (method "plain")
GenerateCodeChallengePlain(code_verifier) == <<"plain", code_verifier>>

\* generate_code_challenge: base64url_nopad(SHA256(code_verifier)); the digest
\* is kept symbolic
GenerateCodeChallenge(code_verifier) == <<"S256", code_verifier>>

\* secrets.token_urlsafe(32): a value never generated before; the values are
\* opaque and interchangeable, so the next unused one is taken
GenerateState(used) == CHOOSE s \in States \ used : \A r \in States \ used : s <= r

\* generate_code_verifier: secrets.token_urlsafe(128), never repeated either
GenerateCodeVerifier(used) == <<"verifier", Cardinality(used) + 1>>

(* --------------------------- the rate limiter --------------------------- *)
\* defaultdict(list): self.rate_limit_store[client_ip]
StoreGet(store, client) == IF client \in DOMAIN store THEN store[client] ELSE <<>>

\* store[client] = value
StoreSet(store, client, value) ==
    [c \in DOMAIN store \cup {client} |-> IF c = client THEN value ELSE store[c]]

\* [t for t in timestamps if now - t < window]  (auth_service.py:124-127)
RECURSIVE Prune(_, _)
Prune(timestamps, t) ==
    IF timestamps = <<>> THEN <<>>
    ELSE IF t - Head(timestamps) < RATE_LIMIT_WINDOW
         THEN <<Head(timestamps)>> \o Prune(Tail(timestamps), t)
         ELSE Prune(Tail(timestamps), t)

\* mutant: the limit is tested with > instead of >=
LimitExceededStrict(timestamps) == Len(timestamps) > RATE_LIMIT_MAX_REQUESTS

\* len(timestamps) >= rate_limit_max_requests  (auth_service.py:130)
LimitExceeded(timestamps) == Len(timestamps) >= RATE_LIMIT_MAX_REQUESTS

\* max(timestamps)
RECURSIVE MaxOf(_)
MaxOf(timestamps) ==
    IF Len(timestamps) = 1 THEN Head(timestamps)
    ELSE LET m == MaxOf(Tail(timestamps))
         IN  IF Head(timestamps) > m THEN Head(timestamps) ELSE m

\* mutant: the cleanup empties the table
CleanupEveryEntry(store, t) == [c \in {} |-> <<>>]

\* _cleanup_old_rate_limit_entries  (auth_service.py:142-152)
CleanupOldRateLimitEntries(store, t) ==
    LET to_delete == {c \in DOMAIN store :
                        store[c] = <<>> \/ t - MaxOf(store[c]) > RATE_LIMIT_WINDOW}
    IN  [c \in DOMAIN store \ to_delete |-> store[c]]

\* AuthService.check_rate_limit(client_ip) at time t: the store it leaves and
\* the answer it returns  (auth_service.py:119-140)
CheckRateLimit(store, client, t) ==
    LET pruned == StoreSet(store, client, Prune(StoreGet(store, client), t))
    IN  IF LimitExceeded(pruned[client])
        THEN [store |-> pruned, allowed |-> FALSE]
        ELSE LET added == StoreSet(pruned, client, Append(pruned[client], t))
             IN  [store |-> IF Cardinality(DOMAIN added) > RATE_LIMIT_MAX_CLIENTS
                            THEN CleanupOldRateLimitEntries(added, t)
                            ELSE added,
                  allowed |-> TRUE]

(* ----------------------------- local state ----------------------------- *)
NoVerifier == VerifierOf(NoDoc)
NoChallenge == <<"S256", NoVerifier>>
NoError == [status_code |-> 0, detail |-> None]
NoUserData == [sub |-> None, email |-> None, name |-> None, picture |-> None]
NoToken == [sub |-> None, email |-> None, name |-> None, picture |-> None, exp |-> 0]
NoLocals ==
    [state |-> BogusState, code_verifier |-> NoVerifier, code_challenge |-> NoChallenge,
     refresh_token |-> None, user_id |-> None, user_data |-> NoUserData,
     session_token |-> NoToken, error |-> NoError, created_at |-> 0,
     claims |-> NoToken, client_ip |-> None, now |-> 0]
\* no _verify_id_token call was made yet
NoIdToken == [wellformed |-> FALSE, signed |-> FALSE, expired |-> FALSE,
              iss |-> None, aud |-> None, sub |-> None]
NoIdCheck == [called |-> FALSE, id_token_jwt |-> NoIdToken,
              outcome |-> [status_code |-> 0, detail |-> None, user_id |-> None]]
\* what an invocation returned or raised
\* no check_rate_limit call was made yet
NoCheck == [client |-> None, at |-> 0, allowed |-> FALSE]
\* (http_status, location, set_cookie and delete_cookie describe the HTTP
\* response of an endpoint; a service call leaves them at their defaults)
NoResult == [kind |-> "none", status_code |-> 0, detail |-> None,
             session_token |-> NoToken, purged |-> FALSE,
             http_status |-> 0, location |-> None, set_cookie |-> NoToken,
             user_info |-> NoUserData, deleted_count |-> 0,
             delete_cookie |-> FALSE]
UrlResult == [NoResult EXCEPT !.kind = "url"]
SessionResult(token) == [NoResult EXCEPT !.kind = "session", !.session_token = token]
ErrorResult(error) ==
    [NoResult EXCEPT !.kind = "error", !.status_code = error.status_code,
                     !.detail = error.detail]

\* mutant helper: some cookie value for any outcome
SomeCookie(res) ==
    IF res.kind = "session" THEN res.session_token
    ELSE [NoToken EXCEPT !.sub = "stale"]

\* where the endpoints redirect to: the provider's authorization endpoint
\* (auth.py:187-197), the frontend root (auth.py:380) and the frontend's login
\* page with an error parameter (auth.py:246,390,396)
ProviderLocation == "accounts.google.com/o/oauth2/v2/auth"
FrontendLocation == "FRONTEND_URL"
LoginErrorLocation == "FRONTEND_URL/login?error="

\* the endpoints that answer with JSON: POST /auth/verify-google-token
\* (auth.py:399-450) returns the profile or lets an HTTPException through;
\* POST /auth/refresh-token (auth.py:484-545) sets the refreshed cookie on
\* the response it returns (line 537) or lets an HTTPException through
JsonOps == {"direct_endpoint", "refresh_endpoint"}

\* the invocations that run initiate_google_login / google_login
LoginOps == {"login", "login_endpoint"}

\* mutant: the cookie is attached to every redirect of the callback endpoint
RespondCookieAlways(o, res) ==
    IF o = "login_endpoint"
    THEN [res EXCEPT !.http_status = HTTP_307_TEMPORARY_REDIRECT,
                     !.location = ProviderLocation]
    ELSE IF o = "endpoint"
    THEN [res EXCEPT !.http_status = HTTP_307_TEMPORARY_REDIRECT,
                     !.location = IF res.kind = "session" THEN FrontendLocation
                                  ELSE LoginErrorLocation,
                     !.set_cookie = SomeCookie(res)]
    ELSE res

\* The HTTP response an endpoint builds from the outcome res of its body:
\* google_login returns RedirectResponse(url=auth_url) (auth.py:200);
\* google_callback_endpoint returns a redirect to the frontend with the cookie
\* set by set_auth_cookie on success (auth.py:380-385) and a redirect to the
\* login page, without cookie, on every failure it handles (auth.py:246,
\* 283, 305, 321, 334, 390, 396).  A service call returns res itself.
Respond(o, res) ==
    IF o = "login_endpoint"
    THEN [res EXCEPT !.http_status = HTTP_307_TEMPORARY_REDIRECT,
                     !.location = ProviderLocation]
    ELSE IF o = "endpoint"
    THEN IF res.kind = "session"
         THEN [res EXCEPT !.http_status = HTTP_307_TEMPORARY_REDIRECT,
                          !.location = FrontendLocation,
                          !.set_cookie = res.session_token]
         ELSE [res EXCEPT !.http_status = HTTP_307_TEMPORARY_REDIRECT,
                          !.location = LoginErrorLocation]
    ELSE IF o \in JsonOps
    THEN IF res.kind = "error"
         THEN [res EXCEPT !.http_status = res.status_code]
         ELSE [res EXCEPT !.http_status = HTTP_200_OK,
                          !.set_cookie = IF o = "refresh_endpoint"
                                         THEN res.session_token ELSE NoToken]
    ELSE res

\* the response FastAPI builds when the dependency check_rate_limit raises
\* HTTPException(429) (auth.py:141-144): the handler body does not run
TooManyRequests ==
    [NoResult EXCEPT !.kind = "error", !.status_code = HTTP_429_TOO_MANY_REQUESTS,
                     !.detail = "Rate limit exceeded. Please try again later.",
                     !.http_status = HTTP_429_TOO_MANY_REQUESTS]

(* ------------------------------ UserRepository -------------------------- *)
\* the unique indexes of user_repository.py:12-13: would writing a document
\* with this id and email raise DuplicateKeyError?
EmailTaken(coll, id, email) ==
    \E u \in DOMAIN coll : u # id /\ coll[u] # NoDoc /\ coll[u].email = email

\* mutant: db.users has no unique index
InsertRaisesNever(coll, user_data) == FALSE

\* collection.insert_one(user_data), user_repository.py:36
InsertRaises(coll, user_data) ==
    coll[user_data.sub] # NoDoc \/ EmailTaken(coll, user_data.sub, user_data.email)
InsertUser(coll, user_data) ==
    [coll EXCEPT ![user_data.sub] =
        [id |-> user_data.sub, email |-> user_data.email, name |-> user_data.name,
         picture |-> user_data.picture, refresh_token |-> None,
         system_prompt |-> None]]

\* mutant: the update replaces the document by the profile
UpdateUserReplaces(coll, user_data) == InsertUser(coll, user_data)

\* collection.update_one({"id": id}, {"$set": user_data}), user_repository.py:30-33
UpdateRaises(coll, user_data) ==
    coll[user_data.sub] # NoDoc /\ EmailTaken(coll, user_data.sub, user_data.email)
UpdateUser(coll, user_data) ==
    IF coll[user_data.sub] = NoDoc THEN coll
    ELSE [coll EXCEPT ![user_data.sub] =
            [@ EXCEPT !.email = user_data.email, !.name = user_data.name,
                      !.picture = user_data.picture]]

\* save_user_refresh_token: update_one({"id": id}, {"$set": {"refresh_token": t}})
SaveUserRefreshToken(coll, id, refresh_token) ==
    IF coll[id] = NoDoc THEN coll
    ELSE [coll EXCEPT ![id] = [@ EXCEPT !.refresh_token = refresh_token]]

\* save_user_system_prompt: update_one({"id": id}, {"$set": {"system_prompt": p}})
SaveUserSystemPrompt(coll, id, system_prompt) ==
    IF coll[id] = NoDoc THEN coll
    ELSE [coll EXCEPT ![id] = [@ EXCEPT !.system_prompt = system_prompt]]

\* create_or_update_user run without interruption: what it raises, if
\* anything, and the collection it leaves
CreateOrUpdateUser(coll, user_data) ==
    IF coll[user_data.sub] # NoDoc
    THEN IF UpdateRaises(coll, user_data)
         THEN [raised |-> "DuplicateKeyError", users |-> coll]
         ELSE [raised |-> None, users |-> UpdateUser(coll, user_data)]
    ELSE IF InsertRaises(coll, user_data)
         THEN [raised |-> "DuplicateKeyError", users |-> coll]
         ELSE [raised |-> None, users |-> InsertUser(coll, user_data)]

(* ------------------------------ Token Codec ----------------------------- *)
\* mutant: the e-mail is put where the subject belongs
CreateAccessTokenEmailAsSub(data, t) ==
    [sub |-> data.email, email |-> data.email, name |-> data.name,
     picture |-> data.picture, exp |-> t + ACCESS_TOKEN_EXPIRE_MINUTES * 60]

\* create_access_token: the claims plus exp = time.time() + 60 * 60
CreateAccessToken(data, t) ==
    [sub |-> data.sub, email |-> data.email, name |-> data.name,
     picture |-> data.picture, exp |-> t + ACCESS_TOKEN_EXPIRE_MINUTES * 60]

\* auth_service.py:34: the key the application signs with, and a key it does
\* not hold
JWT_SECRET == "jwt_secret"
OtherSecret == "other_secret"

\* A cookie value or token string: a JWT (kept symbolic as the claims it
\* carries and the key that signed it), the empty string, a string that is no
\* JWT, or no value at all (Python None).
TokenString(form, claims, key) == [form |-> form, claims |-> claims, key |-> key]
NoCookie == TokenString("none", NoToken, None)
EmptyString == TokenString("empty", NoToken, None)
Garbage == TokenString("garbage", NoToken, None)

\* jwt.encode(to_encode, key, algorithm)  (auth_service.py:60)
JwtEncode(claims, key) == TokenString("jwt", claims, key)

\* the exceptions of jose: JWTError and its subclasses
JWTErrors == {"JWTError", "ExpiredSignatureError", "JWTClaimsError"}

\* what a call returned or how it raised
Returned(payload) == [raised |-> None, payload |-> payload]
Raised(exception) == [raised |-> exception, payload |-> NoToken]

\* mutant: the expiry of the token is not validated
JwtDecodeNoExpiry(token, key, t) ==
    IF token.form = "none" THEN Raised("AttributeError")
    ELSE IF token.form # "jwt" \/ token.key # key THEN Raised("JWTError")
    ELSE Returned(token.claims)

\* mutant: the signature is not verified
JwtDecodeAnyKey(token, key, t) ==
    IF token.form = "none" THEN Raised("AttributeError")
    ELSE IF token.form # "jwt" THEN Raised("JWTError")
    ELSE IF token.claims.exp < t THEN Raised("ExpiredSignatureError")
    ELSE Returned(token.claims)

\* jwt.decode(token, key, algorithms) at time t  (auth_service.py:66): a string
\* that is no JWT or is signed with another key raises JWTError, a token whose
\* exp lies before the current time raises ExpiredSignatureError
JwtDecode(token, key, t) ==
    IF token.form = "none" THEN Raised("AttributeError")
    ELSE IF token.form # "jwt" \/ token.key # key THEN Raised("JWTError")
    ELSE IF token.claims.exp < t THEN Raised("ExpiredSignatureError")
    ELSE Returned(token.claims)

\* mutant: an except clause that names the base class only by identity
ExceptJWTErrorExact(exception) == exception = "JWTError"

\* "except JWTError" (auth_service.py:68): does the clause catch the exception?
ExceptJWTError(exception) == exception \in JWTErrors

\* mutant: a session table is kept, and every token is refused once a logout
\* was served
VerifyAccessTokenRevocable(token, t) ==
    LET decoded == JwtDecode(token, JWT_SECRET, t)
    IN  IF \E p \in Procs : op[p] = "logout" THEN Returned(NoToken)
        ELSE IF decoded.raised # None /\ ExceptJWTError(decoded.raised)
        THEN Returned(NoToken)
        ELSE decoded

\* verify_access_token  (auth_service.py:63-69); returning None is returning
\* NoToken
VerifyAccessToken(token, t) ==
    LET decoded == JwtDecode(token, JWT_SECRET, t)
    IN  IF decoded.raised # None /\ ExceptJWTError(decoded.raised)
        THEN Returned(NoToken)
        ELSE decoded

\* "if not session_token" (auth_service.py:73): None or the empty string
IsFalsy(token) == token.form \in {"none", "empty"}

\* get_current_user_from_cookie  (auth_service.py:71-87): "except Exception"
\* turns whatever verify_access_token raises into None
GetCurrentUserFromCookie(session_token, t) ==
    IF IsFalsy(session_token) THEN Returned(NoToken)
    ELSE LET verified == VerifyAccessToken(session_token, t)
         IN  IF verified.raised # None THEN Returned(NoToken)
             ELSE verified

\* no chat or conversation request was made in the slot yet
\* (cookie is the session_token cookie of the request, session what the
\* cookie dependency made of it; repo lists the repository calls
\* made, returned the documents put in the response; raised and handler name
\* the exception that ended the normal course and the except clause it reached)
NoChat == [user_id |-> None, conversation_id |-> 0, is_new |-> FALSE,
           full_response |-> <<>>, chunks |-> 0, session |-> NoToken,
           returned |-> {}, repo |-> <<>>, raised |-> None, handler |-> None,
           cookie |-> NoCookie]
\* no create_access_token call was made yet
NoMint == [data |-> NoUserData, at |-> 0, token |-> NoCookie]
\* no verification was made yet
NoVerification == [input |-> NoCookie, at |-> 0, verified |-> Returned(NoToken),
                   user |-> Returned(NoToken)]

\* what stays visible of a finished invocation: its state argument and the
\* provider's answers about the subject
Kept(loc) == [NoLocals EXCEPT !.state = loc.state, !.user_id = loc.user_id,
                              !.user_data = loc.user_data, !.claims = loc.claims]

Init ==
    /\ now = 0
    /\ ticks = 0
    /\ calls = 0
    /\ oauth_states = [s \in States |-> NoDoc]
    /\ code_verifiers = [s \in States |-> NoDoc]
    /\ users = [u \in Subs |-> NoDoc]
    /\ user_records = [u \in Subs |-> IF users[u] = NoDoc THEN 0 ELSE 1]
    /\ issued = {}
    /\ handed = [s \in States |-> NoDoc]
    /\ op = [p \in Procs |-> "none"]
    /\ pc = [p \in Procs |-> "idle"]
    /\ locals = [p \in Procs |-> NoLocals]
    /\ result = [p \in Procs |-> NoResult]
    /\ log = [p \in Procs |-> <<>>]
    /\ late = [p \in Procs |-> FALSE]
    /\ sessions = [s \in States |-> 0]
    /\ attempts = [s \in States |-> 0]
    /\ rate_limit_store = [c \in {} |-> <<>>]
    /\ rate_calls = 0
    /\ rate_last = NoCheck
    /\ rate_accepted = [c \in Clients |-> <<>>]
    /\ minted = NoMint
    /\ checked = NoVerification
    /\ environment = "production"
    /\ idcheck = NoIdCheck
    /\ conversations = <<>>
    /\ events = [p \in Procs |-> <<>>]
    /\ chat = [p \in Procs |-> NoChat]

\* the clock advances
Tick ==
    /\ ticks < MaxTicks
    /\ \E d \in TimeSteps : now' = now + d
    /\ ticks' = ticks + 1
    /\ UNCHANGED <<calls, store_vars, issued, handed, op, pc, locals, result, log,
                   hist_vars, rate_vars, token_vars, env_vars, chat_vars>>

\* a slot is free; the lowest free slot is taken (slots are interchangeable)
Free(p) == pc[p] = "idle" /\ \A q \in Procs : q < p => pc[q] # "idle"

(* --------------------- AuthService.initiate_google_login ---------------- *)
\* lines 158-166: generate state and PKCE pair, save_oauth_state; o says
\* whether the service or the endpoint google_login runs
LoginBegin(p, o) ==
    /\ Free(p)
    /\ calls < MaxCalls
    /\ States \ issued # {}
    /\ LET s == GenerateState(issued)
           v == GenerateCodeVerifier(issued)
       IN  /\ issued' = issued \cup {s}
           /\ oauth_states' = UpsertOne(oauth_states, s, StateDoc(s, now, now))
           /\ locals' = [locals EXCEPT ![p] =
                 [NoLocals EXCEPT !.state = s, !.code_verifier = v,
                                  !.code_challenge = GenerateCodeChallenge(v),
                                  !.created_at = now]]
    /\ calls' = calls + 1
    /\ op' = [op EXCEPT ![p] = o]
    /\ pc' = [pc EXCEPT ![p] = "save_verifier"]
    /\ result' = [result EXCEPT ![p] = NoResult]
    /\ log' = [log EXCEPT ![p] = <<>>]
    /\ late' = [late EXCEPT ![p] = FALSE]
    /\ UNCHANGED <<now, ticks, code_verifiers, users, user_records, handed, sessions, attempts,
                   token_vars, env_vars, chat_vars>>

\* AuthService.initiate_google_login begins
LoginSaveState(p) == LoginBegin(p, "login") /\ UNCHANGED rate_vars

\* line 169: save_code_verifier
LoginSaveVerifier(p) ==
    /\ op[p] \in LoginOps /\ pc[p] = "save_verifier"
    /\ code_verifiers' = UpsertOne(code_verifiers, locals[p].state,
            VerifierDoc(locals[p].state, locals[p].code_verifier, now))
    /\ pc' = [pc EXCEPT ![p] = "sweep"]
    /\ UNCHANGED <<now, ticks, calls, oauth_states, users, user_records, issued, handed, op,
                   locals, result, log, hist_vars, rate_vars, token_vars, env_vars, chat_vars>>

\* lines 172-188: clean_expired_oauth_states, build and return the URL
LoginSweepReturn(p) ==
    /\ op[p] \in LoginOps /\ pc[p] = "sweep"
    /\ oauth_states' = CleanExpired(oauth_states, now)
    /\ handed' = [handed EXCEPT ![locals[p].state] =
            [state |-> locals[p].state, code_challenge |-> locals[p].code_challenge,
             created_at |-> locals[p].created_at]]
    /\ result' = [result EXCEPT ![p] = Respond(op[p], UrlResult)]
    /\ pc' = [pc EXCEPT ![p] = "idle"]
    /\ locals' = [locals EXCEPT ![p] = Kept(locals[p])]
    /\ UNCHANGED <<now, ticks, calls, code_verifiers, users, user_records, issued, op, log,
                   hist_vars, rate_vars, token_vars, env_vars, chat_vars>>

(* ---------------- process_google_callback / google_callback_endpoint ---- *)
\* the error details of the two implementations
InvalidStateDetail == "Invalid or expired state parameter"
InvalidVerifierDetail == "Invalid or expired code verifier"
ExchangeFailedDetail == "Failed to exchange code for token"
InvalidIdTokenDetail == "Invalid ID token"
UserInfoFailedDetail == "Failed to get user info"
MismatchDetail == "User ID mismatch"
UnexpectedDetail == "Authentication error"

Error(status_code, detail) == [status_code |-> status_code, detail |-> detail]

\* mutant: no except block cleans up
PurgesOnRaiseNever(o) == FALSE

\* Does the handler of a raised exception delete the state and the verifier?
\* AuthService.process_google_callback does (lines 254-266); the except
\* blocks of google_callback_endpoint (auth.py:387-397) only redirect.
PurgesOnRaise(o) == o = "callback"

\* mutant: the cross-check of the two subjects is left out
SubjectsMatchAlways(user_id, user_data) == TRUE

\* Is the subject of the ID token the subject of the user-info response?
\* (the negation of the test at auth_service.py:305)
SubjectsMatch(user_id, user_data) == user_id = user_data.sub

\* the invocation in slot p ends with res
Finish(p, res) ==
    /\ result' = [result EXCEPT ![p] = Respond(op[p], res)]
    /\ pc' = [pc EXCEPT ![p] = "idle"]
    /\ UNCHANGED op
    /\ sessions' = [s \in States |->
            IF res.kind = "session" /\ s = locals[p].state THEN sessions[s] + 1
            ELSE sessions[s]]
    /\ locals' = [locals EXCEPT ![p] = Kept(locals[p])]

\* the invocation goes on at position next with locals loc
Goto(p, next, loc) ==
    /\ pc' = [pc EXCEPT ![p] = next]
    /\ locals' = [locals EXCEPT ![p] = loc]
    /\ UNCHANGED <<op, result, sessions>>

\* an HTTPException or another exception is raised and reaches the except
\* blocks of the implementation
Raise(p, error) ==
    IF PurgesOnRaise(op[p])
    THEN Goto(p, "err_delete_state", [locals[p] EXCEPT !.error = error])
    ELSE Finish(p, ErrorResult(error))

\* a failure that both implementations answer by deleting state and verifier
\* (the service by raising into its except block, the endpoint inline)
FailAndPurge(p, loc, error) ==
    Goto(p, "err_delete_state", [loc EXCEPT !.error = error])

Logged(p, ev) == log' = [log EXCEPT ![p] = Append(@, ev)]

\* a callback for a state that was handed out, or for a bogus one, begins
CbBegin(p, o) ==
    /\ Free(p)
    /\ calls < MaxCalls
    /\ \E s \in {x \in States : handed[x] # NoDoc} \cup {BogusState} :
        /\ locals' = [locals EXCEPT ![p] = [NoLocals EXCEPT !.state = s]]
        /\ late' = [late EXCEPT ![p] = s \in States /\ sessions[s] > 0]
        /\ attempts' = [x \in States |-> IF x = s THEN attempts[x] + 1 ELSE attempts[x]]
    /\ calls' = calls + 1
    /\ op' = [op EXCEPT ![p] = o]
    /\ pc' = [pc EXCEPT ![p] = "find_state"]
    /\ result' = [result EXCEPT ![p] = NoResult]
    /\ log' = [log EXCEPT ![p] = <<>>]
    /\ UNCHANGED <<now, ticks, store_vars, issued, handed, sessions, token_vars, env_vars, chat_vars>>

\* a callback that passes no rate limiter (the service; the endpoint when
\* the limit is out of reach)
CbStart(p, o) == CbBegin(p, o) /\ UNCHANGED rate_vars

StartCallback(p) == CbStart(p, "callback")
StartEndpoint(p) == CbStart(p, "endpoint")

Running(p) == op[p] \in {"callback", "endpoint"} /\ pc[p] # "idle"

\* get_oauth_state, first half: find_one and the expiry test (lines 42-45),
\* then the test of process_google_callback (line 198)
CbFindState(p) ==
    /\ Running(p) /\ pc[p] = "find_state"
    /\ LET state_data == FindOne(oauth_states, locals[p].state)
       IN  IF IsNone(state_data)
           THEN Raise(p, Error(HTTP_400_BAD_REQUEST, InvalidStateDetail))
                /\ Logged(p, "state_absent")
           ELSE IF IsExpired(state_data, now)
           THEN Goto(p, "expire_state", locals[p]) /\ Logged(p, "state_expired")
           ELSE Goto(p, "find_verifier", locals[p]) /\ Logged(p, "state_valid")
    /\ UNCHANGED <<now, ticks, calls, store_vars, issued, handed, late, attempts,
                   rate_vars, token_vars, env_vars, chat_vars>>

\* get_oauth_state, second half: delete_one of the expired record, return None
CbExpireState(p) ==
    /\ Running(p) /\ pc[p] = "expire_state"
    /\ oauth_states' = DeleteOne(oauth_states, locals[p].state)
    /\ Raise(p, Error(HTTP_400_BAD_REQUEST, InvalidStateDetail))
    /\ UNCHANGED <<now, ticks, calls, code_verifiers, users, user_records, issued, handed, log,
                   late, attempts, rate_vars, token_vars, env_vars, chat_vars>>

\* get_code_verifier, first half (lines 85-88), then the test at line 206
CbFindVerifier(p) ==
    /\ Running(p) /\ pc[p] = "find_verifier"
    /\ LET verifier_data == FindOne(code_verifiers, locals[p].state)
       IN  IF IsNone(verifier_data)
           THEN Raise(p, Error(HTTP_400_BAD_REQUEST, InvalidVerifierDetail))
                /\ Logged(p, "verifier_absent")
           ELSE IF IsExpired(verifier_data, now)
           THEN Goto(p, "expire_verifier", locals[p]) /\ Logged(p, "verifier_expired")
           ELSE Goto(p, "exchange",
                     [locals[p] EXCEPT !.code_verifier = VerifierOf(verifier_data)])
                /\ Logged(p, "verifier_valid")
    /\ UNCHANGED <<now, ticks, calls, store_vars, issued, handed, late, attempts,
                   rate_vars, token_vars, env_vars, chat_vars>>

\* get_code_verifier, second half: delete_one of the expired record
CbExpireVerifier(p) ==
    /\ Running(p) /\ pc[p] = "expire_verifier"
    /\ code_verifiers' = DeleteOne(code_verifiers, locals[p].state)
    /\ Raise(p, Error(HTTP_400_BAD_REQUEST, InvalidVerifierDetail))
    /\ UNCHANGED <<now, ticks, calls, oauth_states, users, user_records, issued, handed, log,
                   late, attempts, rate_vars, token_vars, env_vars, chat_vars>>

\* _exchange_code_for_tokens: requests.post to the token endpoint with code and
\* code_verifier.  The provider answers 200 with a token set (with or without
\* a refresh token), answers another status, or the request raises.
CbExchange(p) ==
    /\ Running(p) /\ pc[p] = "exchange"
    /\ \E answer \in {"non200", "raised"} \cup RefreshTokens \cup {None} :
        CASE answer = "non200" ->
                /\ FailAndPurge(p, locals[p],
                                Error(HTTP_400_BAD_REQUEST, ExchangeFailedDetail))
                /\ Logged(p, "exchange_failed")
          [] answer = "raised" ->
                /\ Raise(p, Error(HTTP_500_INTERNAL_SERVER_ERROR, UnexpectedDetail))
                /\ Logged(p, "exchange_raised")
          [] OTHER ->
                /\ Goto(p, "verify_id_token", [locals[p] EXCEPT !.refresh_token = answer])
                /\ Logged(p, "exchange_ok")
    /\ UNCHANGED <<now, ticks, calls, store_vars, issued, handed, late, attempts,
                   rate_vars, token_vars, env_vars, chat_vars>>

\* _verify_id_token: the ID token verifies and carries a subject, or it does not
CbVerifyIdToken(p) ==
    /\ Running(p) /\ pc[p] = "verify_id_token"
    /\ \E answer \in Subs \cup {"invalid"} :
        IF answer = "invalid"
        THEN /\ FailAndPurge(p, locals[p],
                             Error(HTTP_400_BAD_REQUEST, InvalidIdTokenDetail))
             /\ Logged(p, "id_token_invalid")
        ELSE /\ Goto(p, "user_info", [locals[p] EXCEPT !.user_id = answer])
             /\ Logged(p, "id_token_ok")
    /\ UNCHANGED <<now, ticks, calls, store_vars, issued, handed, late, attempts,
                   rate_vars, token_vars, env_vars, chat_vars>>

\* _get_user_info_from_google, then the cross-check of the two subjects
\* (auth_service.py:302-311, auth.py:310-335)
CbUserInfo(p) ==
    /\ Running(p) /\ pc[p] = "user_info"
    /\ \E ok \in BOOLEAN, user_data \in UserInfoResponses :
        IF ~ok
        THEN /\ FailAndPurge(p, locals[p],
                             Error(HTTP_400_BAD_REQUEST, UserInfoFailedDetail))
             /\ Logged(p, "user_info_failed")
        ELSE IF ~SubjectsMatch(locals[p].user_id, user_data)
        THEN /\ FailAndPurge(p, [locals[p] EXCEPT !.user_data = user_data],
                             Error(HTTP_400_BAD_REQUEST, MismatchDetail))
             /\ Logged(p, "user_info_ok")
        ELSE /\ Goto(p, "upsert_find", [locals[p] EXCEPT !.user_data = user_data])
             /\ log' = [log EXCEPT ![p] = @ \o <<"user_info_ok", "subjects_equal">>]
    /\ UNCHANGED <<now, ticks, calls, store_vars, issued, handed, late, attempts,
                   rate_vars, token_vars, env_vars, chat_vars>>

\* create_or_update_user, find_one (user_repository.py:26)
CbUpsertFind(p) ==
    /\ Running(p) /\ pc[p] = "upsert_find"
    /\ IF users[locals[p].user_data.sub] # NoDoc
       THEN Goto(p, "upsert_update", locals[p])
       ELSE Goto(p, "upsert_insert", locals[p])
    /\ UNCHANGED <<now, ticks, calls, store_vars, issued, handed, log, late, attempts,
                   rate_vars, token_vars, env_vars, chat_vars>>

\* after the user write: save the refresh token if the token set has one
\* (auth_service.py:230), else go on to the session token
AfterUpsert(p) ==
    IF locals[p].refresh_token # None
    THEN Goto(p, "save_refresh_token", locals[p])
    ELSE Goto(p, "delete_state", locals[p])

\* create_or_update_user, update_one (user_repository.py:30-33)
CbUpsertUpdate(p) ==
    /\ Running(p) /\ pc[p] = "upsert_update"
    /\ IF UpdateRaises(users, locals[p].user_data)
       THEN /\ Raise(p, Error(HTTP_500_INTERNAL_SERVER_ERROR, UnexpectedDetail))
            /\ Logged(p, "duplicate_key")
            /\ UNCHANGED <<users, user_records>>
       ELSE /\ users' = UpdateUser(users, locals[p].user_data)
            /\ UNCHANGED user_records
            /\ AfterUpsert(p)
            /\ Logged(p, "user_written")
    /\ UNCHANGED <<now, ticks, calls, oauth_states, code_verifiers, issued, handed,
                   late, attempts, rate_vars, token_vars, env_vars, chat_vars>>

\* create_or_update_user, insert_one (user_repository.py:36)
CbUpsertInsert(p) ==
    /\ Running(p) /\ pc[p] = "upsert_insert"
    /\ IF InsertRaises(users, locals[p].user_data)
       THEN /\ Raise(p, Error(HTTP_500_INTERNAL_SERVER_ERROR, UnexpectedDetail))
            /\ Logged(p, "duplicate_key")
            /\ UNCHANGED <<users, user_records>>
       ELSE /\ users' = InsertUser(users, locals[p].user_data)
            /\ user_records' = [user_records EXCEPT
                                    ![locals[p].user_data.sub] = @ + 1]
            /\ AfterUpsert(p)
            /\ Logged(p, "user_written")
    /\ UNCHANGED <<now, ticks, calls, oauth_states, code_verifiers, issued, handed,
                   late, attempts, rate_vars, token_vars, env_vars, chat_vars>>

\* save_user_refresh_token (auth_service.py:231)
CbSaveRefreshToken(p) ==
    /\ Running(p) /\ pc[p] = "save_refresh_token"
    /\ users' = SaveUserRefreshToken(users, locals[p].user_data.sub,
                                     locals[p].refresh_token)
    /\ UNCHANGED user_records
    /\ Goto(p, "delete_state", locals[p])
    /\ UNCHANGED <<now, ticks, calls, oauth_states, code_verifiers, issued, handed,
                   log, late, attempts, rate_vars, token_vars, env_vars, chat_vars>>

\* create_access_token, then delete_oauth_state (auth_service.py:234-244)
CbDeleteState(p) ==
    /\ Running(p) /\ pc[p] = "delete_state"
    /\ oauth_states' = DeleteOne(oauth_states, locals[p].state)
    /\ Goto(p, "delete_verifier",
            [locals[p] EXCEPT !.session_token = CreateAccessToken(locals[p].user_data, now)])
    /\ Logged(p, "token_issued")
    /\ UNCHANGED <<now, ticks, calls, code_verifiers, users, user_records, issued, handed,
                   late, attempts, rate_vars, token_vars, env_vars, chat_vars>>

\* delete_code_verifier, then return (auth_service.py:245-252)
CbDeleteVerifier(p) ==
    /\ Running(p) /\ pc[p] = "delete_verifier"
    /\ code_verifiers' = DeleteOne(code_verifiers, locals[p].state)
    /\ Finish(p, [SessionResult(locals[p].session_token) EXCEPT !.purged = TRUE])
    /\ UNCHANGED <<now, ticks, calls, oauth_states, users, user_records, issued, handed,
                   log, late, attempts, rate_vars, token_vars, env_vars, chat_vars>>

\* clean up on error: delete_oauth_state (auth_service.py:256,261; auth.py:243...)
CbErrDeleteState(p) ==
    /\ Running(p) /\ pc[p] = "err_delete_state"
    /\ oauth_states' = DeleteOne(oauth_states, locals[p].state)
    /\ Goto(p, "err_delete_verifier", locals[p])
    /\ UNCHANGED <<now, ticks, calls, code_verifiers, users, user_records, issued, handed, log,
                   late, attempts, rate_vars, token_vars, env_vars, chat_vars>>

\* clean up on error: delete_code_verifier, then raise (or redirect)
CbErrDeleteVerifier(p) ==
    /\ Running(p) /\ pc[p] = "err_delete_verifier"
    /\ code_verifiers' = DeleteOne(code_verifiers, locals[p].state)
    /\ Finish(p, [ErrorResult(locals[p].error) EXCEPT !.purged = TRUE])
    /\ UNCHANGED <<now, ticks, calls, oauth_states, users, user_records, issued, handed,
                   log, late, attempts, rate_vars, token_vars, env_vars, chat_vars>>

\* the steps of a running callback, common to the two implementations
CallbackStep(p) ==
    \/ CbFindState(p)
    \/ CbExpireState(p)
    \/ CbFindVerifier(p)
    \/ CbExpireVerifier(p)
    \/ CbExchange(p)
    \/ CbVerifyIdToken(p)
    \/ CbUserInfo(p)
    \/ CbUpsertFind(p)
    \/ CbUpsertUpdate(p)
    \/ CbUpsertInsert(p)
    \/ CbSaveRefreshToken(p)
    \/ CbDeleteState(p)
    \/ CbDeleteVerifier(p)
    \/ CbErrDeleteState(p)
    \/ CbErrDeleteVerifier(p)

LoginStep(p) ==
    \/ LoginSaveState(p)
    \/ LoginSaveVerifier(p)
    \/ LoginSweepReturn(p)

\* the service: logins and process_google_callback invocations
Next ==
    \/ Tick
    \/ \E p \in Procs : LoginStep(p)
    \/ \E p \in Procs : StartCallback(p)
    \/ \E p \in Procs : CallbackStep(p)

Spec == Init /\ [][Next]_vars

\* the HTTP endpoint: logins and google_callback_endpoint invocations
NextEndpoint ==
    \/ Tick
    \/ \E p \in Procs : LoginStep(p)
    \/ \E p \in Procs : StartEndpoint(p)
    \/ \E p \in Procs : CallbackStep(p)

SpecEndpoint == Init /\ [][NextEndpoint]_vars

(* ------------- the endpoints behind the rate-limit dependency ----------- *)
\* check_rate_limit of auth.py:132-153, the dependency of the endpoints.
\* cleanup_old_entries() at line 151 only creates a coroutine, which is never
\* awaited, so no entry of another client is removed.
EndpointCheckRateLimit(store, client, t) ==
    LET pruned == StoreSet(store, client, Prune(StoreGet(store, client), t))
    IN  IF LimitExceeded(pruned[client])
        THEN [store |-> pruned, allowed |-> FALSE]
        ELSE [store |-> StoreSet(pruned, client, Append(pruned[client], t)),
              allowed |-> TRUE]

\* the dependency has run for client c with outcome r
Depended(c, r) ==
    /\ rate_limit_store' = r.store
    /\ rate_last' = [client |-> c, at |-> now, allowed |-> r.allowed]
    /\ rate_accepted' = IF r.allowed
                        THEN [rate_accepted EXCEPT ![c] = Append(@, now)]
                        ELSE rate_accepted
    /\ UNCHANGED rate_calls

\* the dependency raised: FastAPI answers 429 and the handler does not run
HttpReject(p, o) ==
    /\ Free(p)
    /\ calls' = calls + 1
    /\ op' = [op EXCEPT ![p] = o]
    /\ result' = [result EXCEPT ![p] = TooManyRequests]
    /\ locals' = [locals EXCEPT ![p] = NoLocals]
    /\ log' = [log EXCEPT ![p] = <<>>]
    /\ late' = [late EXCEPT ![p] = FALSE]
    /\ UNCHANGED <<now, ticks, store_vars, issued, handed, pc, sessions, attempts,
                   token_vars, env_vars, chat_vars>>

\* GET /auth/google-login from some client  (auth.py:166-178)
HttpGoogleLogin(p) ==
    /\ calls < MaxHttpCalls
    /\ \E c \in Clients :
        LET r == EndpointCheckRateLimit(rate_limit_store, c, now)
        IN  /\ Depended(c, r)
            /\ IF r.allowed THEN LoginBegin(p, "login_endpoint")
               ELSE HttpReject(p, "login_endpoint")

\* GET /auth/google-callback from some client  (auth.py:202-207)
HttpGoogleCallback(p) ==
    /\ calls < MaxHttpCalls
    /\ \E c \in Clients :
        LET r == EndpointCheckRateLimit(rate_limit_store, c, now)
        IN  /\ Depended(c, r)
            /\ IF r.allowed THEN CbBegin(p, "endpoint")
               ELSE HttpReject(p, "endpoint")

\* the timestamps of RATE_LIMIT_MAX_REQUESTS requests made at time 0
FullWindow == [i \in 1..RATE_LIMIT_MAX_REQUESTS |-> 0]

\* a user document left by an earlier login
KnownUser ==
    [id |-> "u1", email |-> "e1", name |-> "n1", picture |-> "p1",
     refresh_token |-> None, system_prompt |-> None]

\* The endpoints start with no login attempt open; the user u1 is new or has
\* logged in before; the client ip1 has made no request yet, or has just used
\* up its limit on POST /auth/verify-google-token (which shares
\* rate_limit_store and touches no collection).
InitHttp ==
    /\ now = 0
    /\ ticks = 0
    /\ calls = 0
    /\ oauth_states = [s \in States |-> NoDoc]
    /\ code_verifiers = [s \in States |-> NoDoc]
    /\ \E known \in BOOLEAN :
        users = [u \in Subs |-> IF known /\ u = "u1" THEN KnownUser ELSE NoDoc]
    /\ user_records = [u \in Subs |-> IF users[u] = NoDoc THEN 0 ELSE 1]
    /\ issued = {}
    /\ handed = [s \in States |-> NoDoc]
    /\ op = [p \in Procs |-> "none"]
    /\ pc = [p \in Procs |-> "idle"]
    /\ locals = [p \in Procs |-> NoLocals]
    /\ result = [p \in Procs |-> NoResult]
    /\ log = [p \in Procs |-> <<>>]
    /\ late = [p \in Procs |-> FALSE]
    /\ sessions = [s \in States |-> 0]
    /\ attempts = [s \in States |-> 0]
    /\ \E used \in BOOLEAN :
        /\ rate_limit_store = IF used THEN [c \in {"ip1"} |-> FullWindow]
                              ELSE [c \in {} |-> <<>>]
        /\ rate_accepted = [c \in Clients |->
                                IF used /\ c = "ip1" THEN FullWindow ELSE <<>>]
    /\ rate_calls = 0
    /\ rate_last = NoCheck
    /\ minted = NoMint
    /\ checked = NoVerification
    /\ environment = "production"
    /\ idcheck = NoIdCheck
    /\ conversations = <<>>
    /\ events = [p \in Procs |-> <<>>]
    /\ chat = [p \in Procs |-> NoChat]

NextHttp ==
    \/ Tick
    \/ \E p \in Procs : HttpGoogleLogin(p)
    \/ \E p \in Procs : LoginSaveVerifier(p)
    \/ \E p \in Procs : LoginSweepReturn(p)
    \/ \E p \in Procs : HttpGoogleCallback(p)
    \/ \E p \in Procs : CallbackStep(p)

SpecHttp == InitHttp /\ [][NextHttp]_vars
\* client c calls check_rate_limit
RateCheck(c) ==
    /\ rate_calls < MaxChecks
    /\ LET r == CheckRateLimit(rate_limit_store, c, now)
       IN  /\ rate_limit_store' = r.store
           /\ rate_last' = [client |-> c, at |-> now, allowed |-> r.allowed]
           /\ rate_accepted' = IF r.allowed
                               THEN [rate_accepted EXCEPT ![c] = Append(@, now)]
                               ELSE rate_accepted
    /\ rate_calls' = rate_calls + 1
    /\ UNCHANGED <<now, ticks, flow_vars, token_vars, env_vars, chat_vars>>

\* the clock advances between check_rate_limit calls
RateTick ==
    /\ ticks < MaxRateTicks
    /\ \E d \in RateTimeSteps : now' = now + d
    /\ ticks' = ticks + 1
    /\ UNCHANGED <<flow_vars, rate_vars, token_vars, env_vars, chat_vars>>

\* the rate limiter alone, called by a single client
NextRateLimit == RateCheck("ip1") \/ RateTick

SpecRateLimit == Init /\ [][NextRateLimit]_vars

(* ------------- direct token verification and session refresh ------------ *)
\* auth_service.py:26  self.google_client_id, and the client id of another
\* application
GOOGLE_CLIENT_ID == "client_id"
OtherClientId == "other_client_id"

InvalidCredentialsDetail == "Invalid authentication credentials"
WrongAudienceDetail == "Token not issued for this application"
NotAuthenticatedDetail == "Not authenticated"
InvalidSessionDetail == "Invalid user session"
NoRefreshTokenDetail == "No refresh token available"
RefreshFailedDetail == "Failed to refresh token"
RefreshErrorDetail == "Token refresh error"

\* mutant: no try statement lets an HTTPException through
ReraisesHTTPExceptionNever(o) == FALSE

\* Does the try statement of the invocation let an HTTPException through?
\* The service has "except HTTPException: raise" before "except Exception"
\* (auth_service.py:414-415, 465-466); the endpoints have "except Exception"
\* only (auth.py:446, 541), which catches the HTTPException as well.
ReraisesHTTPException(o) == o \in {"direct", "refresh"}

\* the detail of the 500 the except Exception block raises
WrappedDetail(o) ==
    IF o \in {"direct", "direct_endpoint"} THEN UnexpectedDetail
    ELSE RefreshErrorDetail

\* an exception other than HTTPException is raised inside the try statement
RaiseUnexpected(p) ==
    Finish(p, ErrorResult(Error(HTTP_500_INTERNAL_SERVER_ERROR, WrappedDetail(op[p]))))

\* an HTTPException is raised inside the try statement
RaiseInTry(p, error) ==
    IF ReraisesHTTPException(op[p]) THEN Finish(p, ErrorResult(error))
    ELSE RaiseUnexpected(p)

\* the status of a failed user-info request: _get_user_info_from_google
\* raises 400 (auth_service.py:372), the endpoint 401 (auth.py:432)
UserInfoFailedStatus(o) ==
    IF o = "direct" THEN HTTP_400_BAD_REQUEST ELSE HTTP_401_UNAUTHORIZED

\* the profile a direct verification returns
ProfileResult(user_data) ==
    [NoResult EXCEPT !.kind = "profile", !.user_info = user_data]

\* the body of an invocation that takes no state argument is entered at
\* position at
SessionEnter(p, o, at, loc) ==
    /\ Free(p)
    /\ calls' = calls + 1
    /\ op' = [op EXCEPT ![p] = o]
    /\ pc' = [pc EXCEPT ![p] = at]
    /\ locals' = [locals EXCEPT ![p] = loc]
    /\ result' = [result EXCEPT ![p] = NoResult]
    /\ log' = [log EXCEPT ![p] = <<>>]
    /\ late' = [late EXCEPT ![p] = FALSE]
    /\ UNCHANGED <<now, ticks, store_vars, issued, handed, sessions, attempts,
                   token_vars, env_vars, chat_vars>>

\* an invocation that takes no state argument and passes no rate limiter
\* begins at position at
SessionBegin(p, o, at, loc) ==
    /\ calls < MaxSessionCalls
    /\ SessionEnter(p, o, at, loc)
    /\ UNCHANGED rate_vars

\* verify_google_token_direct(access_token) / POST /auth/verify-google-token
DvStart(p) ==
    /\ Free(p)
    /\ \E o \in {"direct", "direct_endpoint"} :
        SessionBegin(p, o, "dv_tokeninfo", NoLocals)

\* requests.get to the token-info endpoint and the audience test
\* (auth_service.py:384-402, auth.py:404-422)
DvTokenInfo(p) ==
    /\ pc[p] = "dv_tokeninfo"
    /\ \E answer \in {"non200", "raised", GOOGLE_CLIENT_ID, OtherClientId} :
        CASE answer = "non200" ->
                /\ RaiseInTry(p, Error(HTTP_401_UNAUTHORIZED, InvalidCredentialsDetail))
                /\ Logged(p, "tokeninfo_failed")
          [] answer = "raised" ->
                /\ RaiseUnexpected(p)
                /\ Logged(p, "tokeninfo_raised")
          [] answer = OtherClientId ->
                /\ RaiseInTry(p, Error(HTTP_401_UNAUTHORIZED, WrongAudienceDetail))
                /\ Logged(p, "audience_mismatch")
          [] OTHER ->
                /\ Goto(p, "dv_userinfo", locals[p])
                /\ Logged(p, "tokeninfo_ok")
    /\ UNCHANGED <<now, ticks, calls, store_vars, issued, handed, late, attempts,
                   rate_vars, token_vars, env_vars, chat_vars>>

\* requests.get to the user-info endpoint, then return the profile
\* (auth_service.py:405-412 with 360-378, auth.py:425-444)
DvUserInfo(p) ==
    /\ pc[p] = "dv_userinfo"
    /\ \E answer \in {"ok", "non200", "raised"}, user_data \in UserInfoResponses :
        CASE answer = "non200" ->
                /\ RaiseInTry(p, Error(UserInfoFailedStatus(op[p]), UserInfoFailedDetail))
                /\ Logged(p, "user_info_failed")
          [] answer = "raised" ->
                /\ RaiseUnexpected(p)
                /\ Logged(p, "user_info_raised")
          [] OTHER ->
                /\ Finish(p, ProfileResult(user_data))
                /\ Logged(p, "user_info_ok")
    /\ UNCHANGED <<now, ticks, calls, store_vars, issued, handed, late, attempts,
                   rate_vars, token_vars, env_vars, chat_vars>>

\* get_user_refresh_token (user_repository.py:48-53): the stored token, or
\* None when the user or the field is missing
GetUserRefreshToken(coll, id) ==
    IF id \in DOMAIN coll /\ coll[id] # NoDoc THEN coll[id].refresh_token ELSE None

\* the claims of the session tokens issued at time 0, one per subject
SessionClaims ==
    {CreateAccessToken(user_data, 0) :
        user_data \in {u \in UserInfoResponses :
                         (u.sub = "u1") <=> (u.email = "e1")}}

\* the dictionaries refresh_user_token can be called with: the claims of a
\* session, or a dictionary without "sub"
RefreshCallers == SessionClaims \cup {[NoToken EXCEPT !.email = "e1"]}

\* the cookie values POST /auth/refresh-token can receive
SessionCookies ==
    {NoCookie, Garbage}
    \cup {JwtEncode(c, k) : c \in SessionClaims, k \in {JWT_SECRET, OtherSecret}}

\* mutant: the profile fields are taken from the users collection
RefreshedClaimsFromStore(user, coll) ==
    IF coll[user.sub] = NoDoc THEN user
    ELSE [user EXCEPT !.email = coll[user.sub].email, !.name = coll[user.sub].name,
                      !.picture = coll[user.sub].picture]

\* new_user_data = user.copy()  (auth_service.py:460, auth.py:531): the
\* claims the new token is made from
RefreshedClaims(user, coll) == user

\* refresh_user_token(user) is called
RfStartService(p) ==
    /\ Free(p)
    /\ \E user \in RefreshCallers :
        SessionBegin(p, "refresh", "rf_find", [NoLocals EXCEPT !.claims = user])

\* POST /auth/refresh-token arrives; the dependency
\* get_current_user_from_cookie computes user (auth.py:485)
RfStartEndpoint(p) ==
    /\ Free(p)
    /\ \E cookie \in SessionCookies :
        SessionBegin(p, "refresh_endpoint", "rf_find",
            [NoLocals EXCEPT !.claims = GetCurrentUserFromCookie(cookie, now).payload])

\* the tests of the session and get_user_refresh_token
\* (auth_service.py:424-437, auth.py:487-507); what they raise is raised
\* outside the try statement
RfFind(p) ==
    /\ pc[p] = "rf_find"
    /\ LET user == locals[p].claims
           refresh_token == GetUserRefreshToken(users, user.sub)
       IN  IF op[p] = "refresh_endpoint" /\ user = NoToken
           THEN /\ Finish(p, ErrorResult(Error(HTTP_401_UNAUTHORIZED,
                                               NotAuthenticatedDetail)))
                /\ Logged(p, "not_authenticated")
           ELSE IF user.sub = None
           THEN /\ Finish(p, ErrorResult(Error(HTTP_401_UNAUTHORIZED,
                                               InvalidSessionDetail)))
                /\ Logged(p, "no_sub")
           ELSE IF refresh_token = None
           THEN /\ Finish(p, ErrorResult(Error(HTTP_401_UNAUTHORIZED,
                                               NoRefreshTokenDetail)))
                /\ Logged(p, "no_refresh_token")
           ELSE /\ Goto(p, "rf_post", [locals[p] EXCEPT !.refresh_token = refresh_token])
                /\ Logged(p, "refresh_token_found")
    /\ UNCHANGED <<now, ticks, calls, store_vars, issued, handed, late, attempts,
                   rate_vars, token_vars, env_vars, chat_vars>>

\* requests.post to the token endpoint with grant_type=refresh_token, then
\* create_access_token(user.copy())  (auth_service.py:439-471, auth.py:509-545)
RfPost(p) ==
    /\ pc[p] = "rf_post"
    /\ \E answer \in {"ok", "non200", "raised"} :
        CASE answer = "non200" ->
                /\ RaiseInTry(p, Error(HTTP_401_UNAUTHORIZED, RefreshFailedDetail))
                /\ Logged(p, "refresh_rejected")
          [] answer = "raised" ->
                /\ RaiseUnexpected(p)
                /\ Logged(p, "refresh_raised")
          [] OTHER ->
                /\ Finish(p, SessionResult(
                        CreateAccessToken(RefreshedClaims(locals[p].claims, users), now)))
                /\ Logged(p, "refresh_ok")
    /\ UNCHANGED <<now, ticks, calls, store_vars, issued, handed, late, attempts,
                   rate_vars, token_vars, env_vars, chat_vars>>

\* a user document whose profile has changed since the session was issued,
\* with a refresh token, and one without a refresh token
StoredUsers ==
    [u \in Subs |->
        IF u = "u1"
        THEN [id |-> "u1", email |-> "e1", name |-> "n2", picture |-> None,
              refresh_token |-> "r1", system_prompt |-> None]
        ELSE [id |-> u, email |-> "e2", name |-> "n1", picture |-> None,
              refresh_token |-> None, system_prompt |-> None]]

\* Direct verifications and refreshes start after the logins that issued the
\* sessions: no login attempt is open and the users collection holds the
\* users of the sessions, or has lost them.
InitSession ==
    /\ now = 0
    /\ ticks = 0
    /\ calls = 0
    /\ oauth_states = [s \in States |-> NoDoc]
    /\ code_verifiers = [s \in States |-> NoDoc]
    /\ users \in {StoredUsers, [u \in Subs |-> NoDoc]}
    /\ user_records = [u \in Subs |-> IF users[u] = NoDoc THEN 0 ELSE 1]
    /\ issued = {}
    /\ handed = [s \in States |-> NoDoc]
    /\ op = [p \in Procs |-> "none"]
    /\ pc = [p \in Procs |-> "idle"]
    /\ locals = [p \in Procs |-> NoLocals]
    /\ result = [p \in Procs |-> NoResult]
    /\ log = [p \in Procs |-> <<>>]
    /\ late = [p \in Procs |-> FALSE]
    /\ sessions = [s \in States |-> 0]
    /\ attempts = [s \in States |-> 0]
    /\ rate_limit_store = [c \in {} |-> <<>>]
    /\ rate_calls = 0
    /\ rate_last = NoCheck
    /\ rate_accepted = [c \in Clients |-> <<>>]
    /\ minted = NoMint
    /\ checked = NoVerification
    /\ environment = "production"
    /\ idcheck = NoIdCheck
    /\ conversations = <<>>
    /\ events = [p \in Procs |-> <<>>]
    /\ chat = [p \in Procs |-> NoChat]

\* the clock advances between the steps of the session operations
SessionTick ==
    /\ ticks < MaxTicks
    /\ \E d \in SessionTimeSteps : now' = now + d
    /\ ticks' = ticks + 1
    /\ UNCHANGED <<flow_vars, rate_vars, token_vars, env_vars, chat_vars>>

NextSession ==
    \/ SessionTick
    \/ \E p \in Procs : DvStart(p)
    \/ \E p \in Procs : DvTokenInfo(p)
    \/ \E p \in Procs : DvUserInfo(p)
    \/ \E p \in Procs : RfStartService(p)
    \/ \E p \in Procs : RfStartEndpoint(p)
    \/ \E p \in Procs : RfFind(p)
    \/ \E p \in Procs : RfPost(p)

SpecSession == InitSession /\ [][NextSession]_vars

(* ------------------------------ the token codec ------------------------- *)
\* create_access_token(data) is called with the claims of some user
TokenCreate ==
    /\ calls < MaxTokenCalls
    /\ \E data \in UserInfoResponses :
        minted' = [data |-> data, at |-> now,
                   token |-> JwtEncode(CreateAccessToken(data, now), JWT_SECRET)]
    /\ calls' = calls + 1
    /\ UNCHANGED <<now, ticks, store_vars, issued, handed, op, pc, locals, result,
                   log, hist_vars, rate_vars, checked, env_vars, chat_vars>>

\* the strings a client can present: no cookie, the empty string, a string
\* that is no JWT, the token it was given, and the same claims signed with a
\* key of its own
TokenInputs ==
    {NoCookie, EmptyString, Garbage}
    \cup (IF minted = NoMint THEN {}
          ELSE {minted.token, JwtEncode(minted.token.claims, OtherSecret)})

\* verify_access_token and get_current_user_from_cookie are called with a
\* presented value
TokenVerify ==
    /\ calls < MaxTokenCalls
    /\ \E input \in TokenInputs :
        checked' = [input |-> input, at |-> now,
                    verified |-> VerifyAccessToken(input, now),
                    user |-> GetCurrentUserFromCookie(input, now)]
    /\ calls' = calls + 1
    /\ UNCHANGED <<now, ticks, store_vars, issued, handed, op, pc, locals, result,
                   log, hist_vars, rate_vars, minted, env_vars, chat_vars>>

\* the clock advances between the calls of the token codec
TokenTick ==
    /\ ticks < MaxTokenTicks
    /\ \E d \in TokenTimeSteps : now' = now + d
    /\ ticks' = ticks + 1
    /\ UNCHANGED <<flow_vars, rate_vars, token_vars, env_vars, chat_vars>>

NextToken == TokenCreate \/ TokenVerify \/ TokenTick

SpecToken == Init /\ [][NextToken]_vars

(* ----------------------- AuthService._verify_id_token ------------------- *)
\* the values of the environment variable ENVIRONMENT; None when it is unset
EnvironmentValues == {None, "development", "production", "staging"}

\* auth_service.py:350
AcceptedIssuers == {"accounts.google.com", "https://accounts.google.com"}

\* The ID tokens a token response can carry.  wellformed: three segments whose
\* middle one is base64 of a JSON object with a "sub"; signed: the signature
\* verifies against the provider's public keys; expired: exp lies in the past.
IdTokens ==
    [wellformed : BOOLEAN, signed : BOOLEAN, expired : BOOLEAN,
     iss : AcceptedIssuers \cup {"evil.example"},
     aud : {GOOGLE_CLIENT_ID, OtherClientId}, sub : Subs]

\* _verify_id_token returned user_id / raised HTTPException(400, detail)
IdTokenAccepted(user_id) == [status_code |-> HTTP_200_OK, detail |-> None,
                             user_id |-> user_id]
IdTokenRefused(detail) == [status_code |-> HTTP_400_BAD_REQUEST, detail |-> detail,
                           user_id |-> None]
DecodeErrorDetail == "Error decoding ID token"

\* mutant: the insecure decode is used unless the flag says production
DecodesWithoutVerificationByDefault(env) == env # "production"

\* os.getenv("ENVIRONMENT") == "development"  (auth_service.py:322)
DecodesWithoutVerification(env) == env = "development"

\* lines 324-341: split, base64-decode and parse the payload, return its sub;
\* nothing else of the token is looked at
DecodeIdToken(tok) ==
    IF tok.wellformed THEN IdTokenAccepted(tok.sub)
    ELSE IdTokenRefused(DecodeErrorDetail)

\* id_token.verify_oauth2_token(id_token_jwt, Request(), audience), lines
\* 346-348: raises ValueError unless the token parses, its signature verifies,
\* it has not expired and its audience is the one given
VerifyOauth2Token(tok, audience) ==
    IF ~tok.wellformed \/ ~tok.signed \/ tok.expired \/ tok.aud # audience
    THEN Raised("ValueError")
    ELSE Returned(tok)

\* lines 344-358: verify_oauth2_token, then the issuer check; every exception
\* becomes HTTPException(400, "Invalid ID token")
VerifyIdTokenStrict(tok) ==
    LET idinfo == VerifyOauth2Token(tok, GOOGLE_CLIENT_ID)
    IN  IF idinfo.raised # None THEN IdTokenRefused(InvalidIdTokenDetail)
        ELSE IF idinfo.payload.iss \notin AcceptedIssuers
             THEN IdTokenRefused(InvalidIdTokenDetail)
        ELSE IdTokenAccepted(idinfo.payload.sub)

\* AuthService._verify_id_token under the environment flag env
VerifyIdToken(env, tok) ==
    IF DecodesWithoutVerification(env) THEN DecodeIdToken(tok)
    ELSE VerifyIdTokenStrict(tok)

\* the process starts with some value of the flag, or with none
InitIdToken ==
    /\ now = 0
    /\ ticks = 0
    /\ calls = 0
    /\ oauth_states = [s \in States |-> NoDoc]
    /\ code_verifiers = [s \in States |-> NoDoc]
    /\ users = [u \in Subs |-> NoDoc]
    /\ user_records = [u \in Subs |-> IF users[u] = NoDoc THEN 0 ELSE 1]
    /\ issued = {}
    /\ handed = [s \in States |-> NoDoc]
    /\ op = [p \in Procs |-> "none"]
    /\ pc = [p \in Procs |-> "idle"]
    /\ locals = [p \in Procs |-> NoLocals]
    /\ result = [p \in Procs |-> NoResult]
    /\ log = [p \in Procs |-> <<>>]
    /\ late = [p \in Procs |-> FALSE]
    /\ sessions = [s \in States |-> 0]
    /\ attempts = [s \in States |-> 0]
    /\ rate_limit_store = [c \in {} |-> <<>>]
    /\ rate_calls = 0
    /\ rate_last = NoCheck
    /\ rate_accepted = [c \in Clients |-> <<>>]
    /\ minted = NoMint
    /\ checked = NoVerification
    /\ environment \in EnvironmentValues
    /\ idcheck = NoIdCheck
    /\ conversations = <<>>
    /\ events = [p \in Procs |-> <<>>]
    /\ chat = [p \in Procs |-> NoChat]

\* _verify_id_token is called with the ID token of a token response
IdTokenVerify ==
    /\ \E tok \in IdTokens :
        idcheck' = [called |-> TRUE, id_token_jwt |-> tok,
                    outcome |-> VerifyIdToken(environment, tok)]
    /\ UNCHANGED <<now, ticks, flow_vars, rate_vars, token_vars, environment, chat_vars>>

NextIdToken == IdTokenVerify

SpecIdToken == InitIdToken /\ [][NextIdToken]_vars

(* ------------- the user writes of process_google_callback --------------- *)
SystemPrompts == {"sp1"}

\* process_google_callback has passed lines 190-216: the provider has
\* returned a token set, with or without a refresh token, and the profile of
\* the subject of its ID token; create_or_update_user is called next
CbIdentified(p) ==
    /\ Free(p)
    /\ calls < MaxUserCalls
    /\ \E user_data \in UserInfoResponses, refresh_token \in RefreshTokens \cup {None} :
        locals' = [locals EXCEPT ![p] =
            [NoLocals EXCEPT !.user_id = user_data.sub, !.user_data = user_data,
                             !.refresh_token = refresh_token]]
    /\ calls' = calls + 1
    /\ op' = [op EXCEPT ![p] = "callback"]
    /\ pc' = [pc EXCEPT ![p] = "upsert_find"]
    /\ result' = [result EXCEPT ![p] = NoResult]
    /\ log' = [log EXCEPT ![p] = <<"subjects_equal">>]
    /\ UNCHANGED <<now, ticks, store_vars, issued, handed, hist_vars, rate_vars,
                   token_vars, env_vars, chat_vars>>

\* PUT of the system prompt of a user (UserRepository.save_user_system_prompt)
UserSavesSystemPrompt ==
    /\ \E u \in Subs, system_prompt \in SystemPrompts :
        users' = SaveUserSystemPrompt(users, u, system_prompt)
    /\ UNCHANGED <<now, ticks, calls, oauth_states, code_verifiers, user_records,
                   issued, handed, op, pc, locals, result, log, hist_vars,
                   rate_vars, token_vars, env_vars, chat_vars>>

NextUsers ==
    \/ \E p \in Procs : CbIdentified(p)
    \/ \E p \in Procs : CbUpsertFind(p)
    \/ \E p \in Procs : CbUpsertUpdate(p)
    \/ \E p \in Procs : CbUpsertInsert(p)
    \/ \E p \in Procs : CbSaveRefreshToken(p)
    \/ \E p \in Procs : CbDeleteState(p)
    \/ \E p \in Procs : CbDeleteVerifier(p)
    \/ \E p \in Procs : CbErrDeleteState(p)
    \/ \E p \in Procs : CbErrDeleteVerifier(p)
    \/ UserSavesSystemPrompt

SpecUsers == Init /\ [][NextUsers]_vars

(* --------------------- OAuthRepository, called directly ----------------- *)
\* the created_at values a caller passes: clock readings from now or earlier
RepoCreatedAts == {c \in {0, 1, 600} : c <= now}

\* the repository call o with arguments loc has returned res (kept in slot 1)
RepoReturned(o, loc, res) ==
    /\ calls < MaxRepoCalls
    /\ calls' = calls + 1
    /\ op' = [op EXCEPT ![1] = o]
    /\ locals' = [locals EXCEPT ![1] = loc]
    /\ result' = [result EXCEPT ![1] = res]
    /\ UNCHANGED <<now, ticks, code_verifiers, users, user_records, issued, handed,
                   pc, log, hist_vars, rate_vars, token_vars, env_vars, chat_vars>>

\* save_oauth_state(state, {"created_at": created_at})
RepoSaveOauthState ==
    \E state \in States, created_at \in RepoCreatedAts :
        /\ oauth_states' = UpsertOne(oauth_states, state,
                                     StateDoc(state, created_at, now))
        /\ RepoReturned("save_oauth_state",
                        [NoLocals EXCEPT !.state = state, !.created_at = created_at],
                        [NoResult EXCEPT !.kind = "saved"])

\* get_oauth_state(state): find_one, and delete_one when the record has expired
RepoGetOauthState ==
    \E state \in States :
        LET state_data == FindOne(oauth_states, state)
        IN  /\ oauth_states' = IF IsExpired(state_data, now)
                               THEN DeleteOne(oauth_states, state)
                               ELSE oauth_states
            /\ RepoReturned("get_oauth_state", [NoLocals EXCEPT !.state = state],
                            [NoResult EXCEPT !.kind =
                                IF IsNone(state_data) \/ IsExpired(state_data, now)
                                THEN "none" ELSE "state_data"])

\* clean_expired_oauth_states()
RepoCleanExpiredOauthStates ==
    LET after == CleanExpired(oauth_states, now)
    IN  /\ oauth_states' = after
        /\ RepoReturned("clean_expired_oauth_states", NoLocals,
                        [NoResult EXCEPT !.kind = "count",
                                         !.deleted_count = DeletedCount(oauth_states, after)])

NextRepo ==
    \/ Tick
    \/ RepoSaveOauthState
    \/ RepoGetOauthState
    \/ RepoCleanExpiredOauthStates

SpecRepo == Init /\ [][NextRepo]_vars

(* ------------------- the rate limiters with a full table ---------------- *)
\* the two implementations: AuthService.check_rate_limit and the dependency
\* check_rate_limit of auth.py, each with a rate_limit_store of its own
Limiters == {"service", "endpoint"}

\* RATE_LIMIT_MAX_CLIENTS other clients
OtherClients == {ToString(i) : i \in 1..RATE_LIMIT_MAX_CLIENTS}

\* One of the two limiters is watched.  Its table holds one request, made at
\* time 0, of each of RATE_LIMIT_MAX_CLIENTS other clients.
InitPurge ==
    /\ now = 0
    /\ ticks = 0
    /\ calls = 0
    /\ oauth_states = [s \in States |-> NoDoc]
    /\ code_verifiers = [s \in States |-> NoDoc]
    /\ users = [u \in Subs |-> NoDoc]
    /\ user_records = [u \in Subs |-> 0]
    /\ issued = {}
    /\ handed = [s \in States |-> NoDoc]
    /\ op = [p \in Procs |-> "none"]
    /\ pc = [p \in Procs |-> "idle"]
    /\ locals = [p \in Procs |-> NoLocals]
    /\ result = [p \in Procs |-> NoResult]
    /\ log = [p \in Procs |-> <<>>]
    /\ late = [p \in Procs |-> FALSE]
    /\ sessions = [s \in States |-> 0]
    /\ attempts = [s \in States |-> 0]
    /\ rate_limit_store = [c \in OtherClients |-> <<0>>]
    /\ rate_calls = 0
    /\ \E limiter \in Limiters :
        rate_last = [client |-> None, at |-> 0, allowed |-> FALSE,
                     limiter |-> limiter]
    /\ rate_accepted = [c \in Clients |-> <<>>]
    /\ minted = NoMint
    /\ checked = NoVerification
    /\ environment = "production"
    /\ idcheck = NoIdCheck
    /\ conversations = <<>>
    /\ events = [p \in Procs |-> <<>>]
    /\ chat = [p \in Procs |-> NoChat]

\* the watched limiter has answered client c with r
PurgeChecked(c, r) ==
    /\ rate_calls < MaxPurgeChecks
    /\ rate_calls' = rate_calls + 1
    /\ rate_limit_store' = r.store
    /\ rate_last' = [client |-> c, at |-> now, allowed |-> r.allowed,
                     limiter |-> rate_last.limiter]
    /\ rate_accepted' = IF r.allowed
                        THEN [rate_accepted EXCEPT ![c] = Append(@, now)]
                        ELSE rate_accepted
    /\ UNCHANGED <<now, ticks, flow_vars, token_vars, env_vars, chat_vars>>

\* AuthService.check_rate_limit(c)
PurgeCheckService(c) ==
    /\ rate_last.limiter = "service"
    /\ PurgeChecked(c, CheckRateLimit(rate_limit_store, c, now))

\* the dependency check_rate_limit of auth.py for a request of client c
PurgeCheckEndpoint(c) ==
    /\ rate_last.limiter = "endpoint"
    /\ PurgeChecked(c, EndpointCheckRateLimit(rate_limit_store, c, now))

NextPurge ==
    \/ \E c \in Clients : PurgeCheckService(c)
    \/ \E c \in Clients : PurgeCheckEndpoint(c)
    \/ RateTick

SpecPurge == InitPurge /\ [][NextPurge]_vars

(* ------------- AuthService.check_rate_limit, called concurrently -------- *)
\* the timestamps of RATE_LIMIT_MAX_REQUESTS - 1 requests made at time 0
AlmostFullWindow == [i \in 1..(RATE_LIMIT_MAX_REQUESTS - 1) |-> 0]

\* The client ip1 has made no request yet, or has made one less than the
\* limit allows; no call is running.
InitRace ==
    /\ now = 0
    /\ ticks = 0
    /\ calls = 0
    /\ oauth_states = [s \in States |-> NoDoc]
    /\ code_verifiers = [s \in States |-> NoDoc]
    /\ users = [u \in Subs |-> NoDoc]
    /\ user_records = [u \in Subs |-> 0]
    /\ issued = {}
    /\ handed = [s \in States |-> NoDoc]
    /\ op = [p \in Procs |-> "none"]
    /\ pc = [p \in Procs |-> "idle"]
    /\ locals = [p \in Procs |-> NoLocals]
    /\ result = [p \in Procs |-> NoResult]
    /\ log = [p \in Procs |-> <<>>]
    /\ late = [p \in Procs |-> FALSE]
    /\ sessions = [s \in States |-> 0]
    /\ attempts = [s \in States |-> 0]
    /\ \E used \in BOOLEAN :
        /\ rate_limit_store = IF used THEN [c \in {"ip1"} |-> AlmostFullWindow]
                              ELSE [c \in {} |-> <<>>]
        /\ rate_accepted = [c \in Clients |->
                                IF used /\ c = "ip1" THEN AlmostFullWindow ELSE <<>>]
    /\ rate_calls = 0
    /\ rate_last = NoCheck
    /\ minted = NoMint
    /\ checked = NoVerification
    /\ environment = "production"
    /\ idcheck = NoIdCheck
    /\ conversations = <<>>
    /\ events = [p \in Procs |-> <<>>]
    /\ chat = [p \in Procs |-> NoChat]

\* line 121: check_rate_limit(client_ip) is entered and reads the clock
RaceStart(p) ==
    /\ Free(p)
    /\ calls < MaxRaceCalls
    /\ calls' = calls + 1
    /\ \E client_ip \in Clients :
        locals' = [locals EXCEPT ![p] =
                      [NoLocals EXCEPT !.client_ip = client_ip, !.now = now]]
    /\ op' = [op EXCEPT ![p] = "check_rate_limit"]
    /\ pc' = [pc EXCEPT ![p] = "prune"]
    /\ result' = [result EXCEPT ![p] = NoResult]
    /\ UNCHANGED <<now, ticks, store_vars, issued, handed, log, hist_vars,
                   rate_vars, token_vars, env_vars, chat_vars>>

\* lines 124-127: the list of the client is replaced by its pruned copy
RacePrune(p) ==
    /\ op[p] = "check_rate_limit" /\ pc[p] = "prune"
    /\ rate_limit_store' =
            StoreSet(rate_limit_store, locals[p].client_ip,
                     Prune(StoreGet(rate_limit_store, locals[p].client_ip),
                           locals[p].now))
    /\ pc' = [pc EXCEPT ![p] = "test"]
    /\ UNCHANGED <<now, ticks, calls, store_vars, issued, handed, op, locals, result,
                   log, hist_vars, rate_calls, rate_last, rate_accepted,
                   token_vars, env_vars, chat_vars>>

\* lines 130-131: the length test; return False when the limit is reached
RaceTest(p) ==
    /\ op[p] = "check_rate_limit" /\ pc[p] = "test"
    /\ IF LimitExceeded(StoreGet(rate_limit_store, locals[p].client_ip))
       THEN /\ pc' = [pc EXCEPT ![p] = "idle"]
            /\ result' = [result EXCEPT ![p] = [NoResult EXCEPT !.kind = "False"]]
            /\ rate_last' = [client |-> locals[p].client_ip, at |-> locals[p].now,
                             allowed |-> FALSE]
            /\ rate_calls' = rate_calls + 1
       ELSE /\ pc' = [pc EXCEPT ![p] = "append"]
            /\ UNCHANGED <<result, rate_last, rate_calls>>
    /\ UNCHANGED <<now, ticks, calls, store_vars, issued, handed, op, locals, log,
                   hist_vars, rate_limit_store, rate_accepted, token_vars, env_vars, chat_vars>>

\* lines 134-140: append the timestamp, clean up when the table is full,
\* return True
RaceAppend(p) ==
    /\ op[p] = "check_rate_limit" /\ pc[p] = "append"
    /\ LET client_ip == locals[p].client_ip
           added == StoreSet(rate_limit_store, client_ip,
                             Append(StoreGet(rate_limit_store, client_ip),
                                    locals[p].now))
       IN  /\ rate_limit_store' =
                    IF Cardinality(DOMAIN added) > RATE_LIMIT_MAX_CLIENTS
                    THEN CleanupOldRateLimitEntries(added, now)
                    ELSE added
           /\ rate_accepted' = [rate_accepted EXCEPT ![client_ip] =
                                    Append(@, locals[p].now)]
           /\ rate_last' = [client |-> client_ip, at |-> locals[p].now,
                            allowed |-> TRUE]
    /\ rate_calls' = rate_calls + 1
    /\ pc' = [pc EXCEPT ![p] = "idle"]
    /\ result' = [result EXCEPT ![p] = [NoResult EXCEPT !.kind = "True"]]
    /\ UNCHANGED <<now, ticks, calls, store_vars, issued, handed, op, locals, log,
                   hist_vars, token_vars, env_vars, chat_vars>>

NextRace ==
    \/ \E p \in Procs : RaceStart(p)
    \/ \E p \in Procs : RacePrune(p)
    \/ \E p \in Procs : RaceTest(p)
    \/ \E p \in Procs : RaceAppend(p)
    \/ RateTick

SpecRace == InitRace /\ [][NextRace]_vars

(* ------------------- the provider may not answer at all ----------------- *)
\* the positions at which an invocation waits for the provider's answer:
\* requests.post / requests.get without a timeout argument
\* (auth_service.py:281, 363, 384, 449)
ProviderCalls == {"exchange", "user_info", "dv_tokeninfo", "dv_userinfo", "rf_post"}

\* The provider never answers the request of the invocation in slot p.  The
\* request was made without a timeout, so the call never returns and the
\* invocation stays where it is.
ProviderSilent(p) ==
    /\ pc[p] \in ProviderCalls
    /\ pc' = [pc EXCEPT ![p] = "blocked"]
    /\ Logged(p, "no_answer")
    /\ UNCHANGED <<now, ticks, calls, store_vars, issued, handed, op, locals, result,
                   hist_vars, rate_vars, token_vars, env_vars, chat_vars>>

\* One login has returned its URL at time 0; its state is open.  The users
\* collection holds the user of an earlier login.
InitLive ==
    /\ now = 0
    /\ ticks = 0
    /\ calls = 0
    /\ LET state == GenerateState({})
           code_verifier == GenerateCodeVerifier({})
       IN  /\ oauth_states = [s \in States |->
                    IF s = state THEN StateDoc(state, 0, 0) ELSE NoDoc]
           /\ code_verifiers = [s \in States |->
                    IF s = state THEN VerifierDoc(state, code_verifier, 0) ELSE NoDoc]
           /\ issued = {state}
           /\ handed = [s \in States |->
                    IF s = state
                    THEN [state |-> state,
                          code_challenge |-> GenerateCodeChallenge(code_verifier),
                          created_at |-> 0]
                    ELSE NoDoc]
    /\ users = [u \in Subs |-> IF u = "u1" THEN StoredUsers[u] ELSE NoDoc]
    /\ user_records = [u \in Subs |-> IF users[u] = NoDoc THEN 0 ELSE 1]
    /\ op = [p \in Procs |-> "none"]
    /\ pc = [p \in Procs |-> "idle"]
    /\ locals = [p \in Procs |-> NoLocals]
    /\ result = [p \in Procs |-> NoResult]
    /\ log = [p \in Procs |-> <<>>]
    /\ late = [p \in Procs |-> FALSE]
    /\ sessions = [s \in States |-> 0]
    /\ attempts = [s \in States |-> 0]
    /\ rate_limit_store = [c \in {} |-> <<>>]
    /\ rate_calls = 0
    /\ rate_last = NoCheck
    /\ rate_accepted = [c \in Clients |-> <<>>]
    /\ minted = NoMint
    /\ checked = NoVerification
    /\ environment = "production"
    /\ idcheck = NoIdCheck
    /\ conversations = <<>>
    /\ events = [p \in Procs |-> <<>>]
    /\ chat = [p \in Procs |-> NoChat]

\* process_google_callback is called
LiveCallback(p) == calls < MaxLiveCalls /\ StartCallback(p)

\* verify_google_token_direct is called
LiveDirect(p) ==
    /\ calls < MaxLiveCalls
    /\ SessionBegin(p, "direct", "dv_tokeninfo", NoLocals)

\* refresh_user_token is called
LiveRefresh(p) == calls < MaxLiveCalls /\ RfStartService(p)

\* the next step of the invocation in slot p
LiveStep(p) ==
    \/ CallbackStep(p)
    \/ DvTokenInfo(p)
    \/ DvUserInfo(p)
    \/ RfFind(p)
    \/ RfPost(p)

NextLive ==
    \/ Tick
    \/ \E p \in Procs : LiveCallback(p)
    \/ \E p \in Procs : LiveDirect(p)
    \/ \E p \in Procs : LiveRefresh(p)
    \/ \E p \in Procs : LiveStep(p)
    \/ \E p \in Procs : ProviderSilent(p)

\* A running invocation is not starved: its next step is taken when it stays
\* possible.  Nothing obliges the provider to answer.
LiveFairness == \A p \in Procs : WF_vars(LiveStep(p))

SpecLive == InitLive /\ [][NextLive]_vars /\ LiveFairness

\* the same with a provider that answers every request
NextAnswered ==
    \/ Tick
    \/ \E p \in Procs : LiveCallback(p)
    \/ \E p \in Procs : LiveDirect(p)
    \/ \E p \in Procs : LiveRefresh(p)
    \/ \E p \in Procs : LiveStep(p)

SpecAnswered == InitLive /\ [][NextAnswered]_vars /\ LiveFairness

(* --------------- the four endpoints behind the dependency --------------- *)
\* mutant: the handler body runs whatever the dependency answered
GuardedNever(p, o, Body) ==
    \E c \in Clients :
        LET r == EndpointCheckRateLimit(rate_limit_store, c, now)
        IN  Depended(c, r) /\ Body

\* "_: bool = Depends(check_rate_limit)" in the signature of an endpoint
\* (auth.py:167, 203, 400, 485): FastAPI resolves the dependency before it
\* calls the handler; when the dependency raises, the handler is not called
Guarded(p, o, Body) ==
    \E c \in Clients :
        LET r == EndpointCheckRateLimit(rate_limit_store, c, now)
        IN  /\ Depended(c, r)
            /\ IF r.allowed THEN Body ELSE HttpReject(p, o)

\* POST /auth/verify-google-token from some client  (auth.py:399-400)
HttpVerifyGoogleToken(p) ==
    /\ calls < MaxHttpCalls
    /\ Guarded(p, "direct_endpoint",
               SessionEnter(p, "direct_endpoint", "dv_tokeninfo", NoLocals))

\* POST /auth/refresh-token from some client with some cookie (auth.py:484-485):
\* the dependency get_current_user_from_cookie computes user, then
\* check_rate_limit runs, then the handler
HttpRefreshToken(p) ==
    /\ calls < MaxHttpCalls
    /\ \E cookie \in SessionCookies :
        Guarded(p, "refresh_endpoint",
                SessionEnter(p, "refresh_endpoint", "rf_find",
                    [NoLocals EXCEPT !.claims =
                        GetCurrentUserFromCookie(cookie, now).payload]))

\* The four endpoints start with no login attempt open; the user u1 has logged
\* in before and has a refresh token; the client ip1 has made no request yet,
\* or has just used up its limit.
InitGuard ==
    /\ now = 0
    /\ ticks = 0
    /\ calls = 0
    /\ oauth_states = [s \in States |-> NoDoc]
    /\ code_verifiers = [s \in States |-> NoDoc]
    /\ users = [u \in Subs |-> IF u = "u1" THEN StoredUsers[u] ELSE NoDoc]
    /\ user_records = [u \in Subs |-> IF users[u] = NoDoc THEN 0 ELSE 1]
    /\ issued = {}
    /\ handed = [s \in States |-> NoDoc]
    /\ op = [p \in Procs |-> "none"]
    /\ pc = [p \in Procs |-> "idle"]
    /\ locals = [p \in Procs |-> NoLocals]
    /\ result = [p \in Procs |-> NoResult]
    /\ log = [p \in Procs |-> <<>>]
    /\ late = [p \in Procs |-> FALSE]
    /\ sessions = [s \in States |-> 0]
    /\ attempts = [s \in States |-> 0]
    /\ \E used \in BOOLEAN :
        /\ rate_limit_store = IF used THEN [c \in {"ip1"} |-> FullWindow]
                              ELSE [c \in {} |-> <<>>]
        /\ rate_accepted = [c \in Clients |->
                                IF used /\ c = "ip1" THEN FullWindow ELSE <<>>]
    /\ rate_calls = 0
    /\ rate_last = NoCheck
    /\ minted = NoMint
    /\ checked = NoVerification
    /\ environment = "production"
    /\ idcheck = NoIdCheck
    /\ conversations = <<>>
    /\ events = [p \in Procs |-> <<>>]
    /\ chat = [p \in Procs |-> NoChat]

NextGuard ==
    \/ Tick
    \/ \E p \in Procs : HttpGoogleLogin(p)
    \/ \E p \in Procs : LoginSaveVerifier(p)
    \/ \E p \in Procs : LoginSweepReturn(p)
    \/ \E p \in Procs : HttpGoogleCallback(p)
    \/ \E p \in Procs : CallbackStep(p)
    \/ \E p \in Procs : HttpVerifyGoogleToken(p)
    \/ \E p \in Procs : DvTokenInfo(p)
    \/ \E p \in Procs : DvUserInfo(p)
    \/ \E p \in Procs : HttpRefreshToken(p)
    \/ \E p \in Procs : RfFind(p)
    \/ \E p \in Procs : RfPost(p)

SpecGuard == InitGuard /\ [][NextGuard]_vars

(* --------------------------------- logout ------------------------------- *)
\* the response of POST /auth/logout (auth.py:452-466): delete_cookie on the
\* response and a JSON message
LogoutResponse ==
    [NoResult EXCEPT !.kind = "logout", !.http_status = HTTP_200_OK,
                     !.delete_cookie = TRUE, !.detail = "Logged out successfully"]

\* POST /auth/logout (auth.py:452-466): the handler has no dependency, reads
\* no cookie and touches no collection; it is served at once
Logout(p) ==
    /\ calls < MaxTokenCalls
    /\ Free(p)
    /\ calls' = calls + 1
    /\ op' = [op EXCEPT ![p] = "logout"]
    /\ result' = [result EXCEPT ![p] = LogoutResponse]
    /\ locals' = [locals EXCEPT ![p] = [NoLocals EXCEPT !.now = now]]
    /\ log' = [log EXCEPT ![p] = <<>>]
    /\ UNCHANGED <<now, ticks, store_vars, issued, handed, pc, hist_vars, rate_vars,
                   token_vars, env_vars, chat_vars>>

\* sessions are issued, presented and logged out while the clock advances
NextLogout ==
    \/ TokenCreate
    \/ TokenVerify
    \/ TokenTick
    \/ \E p \in Procs : Logout(p)

SpecLogout == Init /\ [][NextLogout]_vars

(* ------------------- callbacks of two open login attempts --------------- *)
\* the record a finished login leaves in the URL it returned
HandedDoc(state, code_verifier, created_at) ==
    [state |-> state, code_challenge |-> GenerateCodeChallenge(code_verifier),
     created_at |-> created_at]

\* Two initiate_google_login calls have returned at time 0: two states with
\* their verifiers are stored and their URLs are with two browsers; the user
\* u1 has logged in before.
InitAttempts ==
    /\ now = 0
    /\ ticks = 0
    /\ calls = 0
    /\ LET first == GenerateState({})
           second == GenerateState({first})
           verifier(s) == GenerateCodeVerifier(IF s = first THEN {} ELSE {first})
       IN  /\ issued = {first, second}
           /\ oauth_states = [s \in States |->
                    IF s \in issued THEN StateDoc(s, 0, 0) ELSE NoDoc]
           /\ code_verifiers = [s \in States |->
                    IF s \in issued THEN VerifierDoc(s, verifier(s), 0) ELSE NoDoc]
           /\ handed = [s \in States |->
                    IF s \in issued THEN HandedDoc(s, verifier(s), 0) ELSE NoDoc]
    /\ users = [u \in Subs |-> IF u = "u1" THEN StoredUsers[u] ELSE NoDoc]
    /\ user_records = [u \in Subs |-> IF users[u] = NoDoc THEN 0 ELSE 1]
    /\ op = [p \in Procs |-> "none"]
    /\ pc = [p \in Procs |-> "idle"]
    /\ locals = [p \in Procs |-> NoLocals]
    /\ result = [p \in Procs |-> NoResult]
    /\ log = [p \in Procs |-> <<>>]
    /\ late = [p \in Procs |-> FALSE]
    /\ sessions = [s \in States |-> 0]
    /\ attempts = [s \in States |-> 0]
    /\ rate_limit_store = [c \in {} |-> <<>>]
    /\ rate_calls = 0
    /\ rate_last = NoCheck
    /\ rate_accepted = [c \in Clients |-> <<>>]
    /\ minted = NoMint
    /\ checked = NoVerification
    /\ environment = "production"
    /\ idcheck = NoIdCheck
    /\ conversations = <<>>
    /\ events = [p \in Procs |-> <<>>]
    /\ chat = [p \in Procs |-> NoChat]

\* process_google_callback is called for one of the open attempts, or for a
\* state nobody was given
AttemptCallback(p) == calls < MaxAttemptCalls /\ StartCallback(p)

NextAttempts ==
    \/ Tick
    \/ \E p \in Procs : AttemptCallback(p)
    \/ \E p \in Procs : CallbackStep(p)

SpecAttempts == InitAttempts /\ [][NextAttempts]_vars

(* ---------------- check_rate_limit, called by two clients --------------- *)
\* The limiter of the service has served the clients ip1 and ip2 before:
\* each has made no request yet or has made one less than the limit allows,
\* at time 0; the table is otherwise empty or holds RATE_LIMIT_MAX_CLIENTS
\* other clients.
InitWindow ==
    /\ now = 0
    /\ ticks = 0
    /\ calls = 0
    /\ oauth_states = [s \in States |-> NoDoc]
    /\ code_verifiers = [s \in States |-> NoDoc]
    /\ users = [u \in Subs |-> NoDoc]
    /\ user_records = [u \in Subs |-> 0]
    /\ issued = {}
    /\ handed = [s \in States |-> NoDoc]
    /\ op = [p \in Procs |-> "none"]
    /\ pc = [p \in Procs |-> "idle"]
    /\ locals = [p \in Procs |-> NoLocals]
    /\ result = [p \in Procs |-> NoResult]
    /\ log = [p \in Procs |-> <<>>]
    /\ late = [p \in Procs |-> FALSE]
    /\ sessions = [s \in States |-> 0]
    /\ attempts = [s \in States |-> 0]
    /\ \E served \in SUBSET Clients, crowded \in BOOLEAN :
        /\ rate_limit_store =
              [c \in served \cup (IF crowded THEN OtherClients ELSE {}) |->
                    IF c \in served THEN AlmostFullWindow ELSE <<0>>]
        /\ rate_accepted = [c \in Clients |->
                                IF c \in served THEN AlmostFullWindow ELSE <<>>]
    /\ rate_calls = 0
    /\ rate_last = NoCheck
    /\ minted = NoMint
    /\ checked = NoVerification
    /\ environment = "production"
    /\ idcheck = NoIdCheck
    /\ conversations = <<>>
    /\ events = [p \in Procs |-> <<>>]
    /\ chat = [p \in Procs |-> NoChat]

\* AuthService.check_rate_limit(c), one call after the other
WindowCheck(c) == rate_calls < MaxWindowChecks /\ RateCheck(c)

NextWindow ==
    \/ \E c \in Clients : WindowCheck(c)
    \/ RateTick

SpecWindow == InitWindow /\ [][NextWindow]_vars

(* ----------------- tokens of other instances and process runs ----------- *)
\* os.getenv("JWT_SECRET", secrets.token_urlsafe(32))  (auth_service.py:34):
\* the configured value, or a freshly generated one when none is configured
GetenvJwtSecret(value, generated) == IF value # None THEN value ELSE generated

\* create_access_token(data) is called in another instance or process run,
\* which is configured with the secret of this one or with none; a generated
\* secret differs from every other secret
TokenCreateElsewhere ==
    /\ calls < MaxTokenCalls
    /\ \E data \in UserInfoResponses, value \in {None, JWT_SECRET} :
        minted' = [data |-> data, at |-> now,
                   token |-> JwtEncode(CreateAccessToken(data, now),
                                       GetenvJwtSecret(value, OtherSecret))]
    /\ calls' = calls + 1
    /\ UNCHANGED <<now, ticks, store_vars, issued, handed, op, pc, locals, result,
                   log, hist_vars, rate_vars, checked, env_vars, chat_vars>>

\* tokens are created here and elsewhere and presented here
NextSoundness ==
    \/ TokenCreate
    \/ TokenCreateElsewhere
    \/ TokenVerify
    \/ TokenTick

SpecSoundness == Init /\ [][NextSoundness]_vars

(* ------------------------ ConversationRepository ------------------------ *)
\* the value of a request without conversation_id (Python None)
NoConversationId == 0
\* strings are sequences of characters: the message of the user, the chunks
\* llm.stream can deliver (one of them empty), the titles the title chain can
\* give (one of them empty)
UserContent == <<"q">>
ChunkContents == {<<>>, <<"a">>}
NewTitles == {"", "t"}
Message(role, content) == [role |-> role, content |-> content]

\* mutant: the filter names the conversation id only
MatchesIdOnly(doc, conversation_id, user_id) ==
    doc # NoDoc /\ doc.id = conversation_id

\* the filter {"id": conversation_id, "user_id": user_id} of every find_one,
\* update_one and delete_one  (conversation_repository.py:19,49,62,69)
Matches(doc, conversation_id, user_id) ==
    doc # NoDoc /\ doc.id = conversation_id /\ doc.user_id = user_id

\* get_conversation_by_id  (conversation_repository.py:17-19)
GetConversationById(coll, conversation_id, user_id) ==
    IF \E i \in DOMAIN coll : Matches(coll[i], conversation_id, user_id)
    THEN coll[CHOOSE i \in DOMAIN coll : Matches(coll[i], conversation_id, user_id)]
    ELSE NoDoc

\* get_conversations_by_user  (conversation_repository.py:21-24)
GetConversationsByUser(coll, user_id) ==
    {coll[i] : i \in {j \in DOMAIN coll : coll[j] # NoDoc /\ coll[j].user_id = user_id}}

\* create_conversation  (conversation_repository.py:26-38): uuid4 gives an id
\* no document ever had
CreateConversation(coll, user_id) ==
    Append(coll, [id |-> Len(coll) + 1, user_id |-> user_id, title |-> "New Chat",
                  messages |-> <<>>])

\* the update_one of add_message  (conversation_repository.py:48-54)
PushMessage(coll, conversation_id, user_id, message) ==
    [i \in DOMAIN coll |->
        IF Matches(coll[i], conversation_id, user_id)
        THEN [coll[i] EXCEPT !.messages = Append(@, message)]
        ELSE coll[i]]

\* update_conversation_title  (conversation_repository.py:59-65)
UpdateConversationTitle(coll, conversation_id, user_id, title) ==
    [i \in DOMAIN coll |->
        IF Matches(coll[i], conversation_id, user_id)
        THEN [coll[i] EXCEPT !.title = title]
        ELSE coll[i]]

\* delete_conversation  (conversation_repository.py:67-70)
DeleteConversation(coll, conversation_id, user_id) ==
    [i \in DOMAIN coll |->
        IF Matches(coll[i], conversation_id, user_id) THEN NoDoc ELSE coll[i]]

\* an entry of the list of repository calls of a request: the call, its key,
\* whether a document matched, how many messages the document found had, and
\* how many events the stream had yielded when the call was made
RepoCall(call, c, doc, after) ==
    [call |-> call, conversation_id |-> c.conversation_id, user_id |-> c.user_id,
     matched |-> doc # NoDoc,
     messages |-> IF doc # NoDoc THEN Len(doc.messages) ELSE 0,
     after |-> after]
Logged2(c, entry) == [c EXCEPT !.repo = Append(@, entry)]

(* ------------- process_chat_stream and the endpoint chat_stream --------- *)
StreamOps == {"stream", "stream_endpoint"}
\* the cookie values a chat or conversation request can carry: none, the
\* session of either user, or a token signed with another key
ChatCookies ==
    {NoCookie} \cup {JwtEncode(c, k) : c \in SessionClaims, k \in {JWT_SECRET, OtherSecret}}
\* the conversation ids a request can name: none, or the id of a document
\* that exists or existed
RequestIds == {NoConversationId} \cup DOMAIN conversations

StreamResponse == [NoResult EXCEPT !.kind = "stream", !.http_status = HTTP_200_OK]
JsonResponse == [NoResult EXCEPT !.kind = "json", !.http_status = HTTP_200_OK]
HttpError(status_code, detail) ==
    [NoResult EXCEPT !.kind = "error", !.status_code = status_code,
                     !.http_status = status_code, !.detail = detail]

\* what no chat or conversation request changes
ChatFrame ==
    UNCHANGED <<now, ticks, store_vars, issued, handed, locals, log, hist_vars,
                rate_vars, token_vars, env_vars>>

\* a request takes the lowest free slot
ChatEnter(p, o) ==
    /\ calls < MaxChatCalls
    /\ o \in StreamOps => Cardinality({q \in Procs : pc[q] # "idle"}) < MaxStreams
    /\ Free(p)
    /\ calls' = calls + 1
    /\ op' = [op EXCEPT ![p] = o]
    /\ events' = [events EXCEPT ![p] = <<>>]
    /\ ChatFrame

\* the request in slot p goes on at next with locals c, having yielded evs
ChatGoto(p, next, c, evs) ==
    /\ pc' = [pc EXCEPT ![p] = next]
    /\ chat' = [chat EXCEPT ![p] = c]
    /\ events' = [events EXCEPT ![p] = events[p] \o evs]
    /\ UNCHANGED <<calls, op, result>>
    /\ ChatFrame

\* the generator in slot p ends, having yielded evs
ChatEnd(p, c, evs) ==
    /\ pc' = [pc EXCEPT ![p] = "idle"]
    /\ chat' = [chat EXCEPT ![p] = c]
    /\ events' = [events EXCEPT ![p] = events[p] \o evs]
    /\ result' = [result EXCEPT ![p] = StreamResponse]
    /\ UNCHANGED <<calls, op>>
    /\ ChatFrame

\* "except Exception as e" of the generator (chat_service.py:197-199,
\* chat.py:268-270): one error event, and the generator ends
ChatError(p, exception) ==
    /\ ChatEnd(p, [chat[p] EXCEPT !.raised = exception, !.handler = "stream"],
               <<"error">>)
    /\ UNCHANGED conversations

\* _validate_openai_key  (chat_service.py:25-31), called before the try block
\* (chat_service.py:140): does the call raise HTTPException?
KeyMissingRaises(key) == ~key

\* process_chat_stream(message, user_id), lines 136-146: the generator
\* validates the key before its try block; the HTTPException leaves the
\* generator and no event is yielded
ProcessChatStream(p) ==
    /\ ChatEnter(p, "stream")
    /\ \E user_id \in Subs, conversation_id \in RequestIds, key \in BOOLEAN :
         LET c == [NoChat EXCEPT !.user_id = user_id,
                                 !.conversation_id = conversation_id]
         IN  IF KeyMissingRaises(key)
             THEN /\ chat' = [chat EXCEPT ![p] =
                        [c EXCEPT !.raised = "HTTPException", !.handler = "caller"]]
                  /\ result' = [result EXCEPT ![p] =
                        HttpError(HTTP_500_INTERNAL_SERVER_ERROR, "OpenAI API key not found")]
                  /\ UNCHANGED pc
             ELSE /\ chat' = [chat EXCEPT ![p] = c]
                  /\ pc' = [pc EXCEPT ![p] = "cs_get"]
                  /\ UNCHANGED result
    /\ UNCHANGED conversations

\* POST /chat/stream  (chat.py:182-199): 401 without a session, 500 without
\* the key, both raised by the handler before the generator is made
ChatStream(p) ==
    /\ ChatEnter(p, "stream_endpoint")
    /\ \E cookie \in ChatCookies, conversation_id \in RequestIds, key \in BOOLEAN :
         LET user == GetCurrentUserFromCookie(cookie, now).payload
             c == [NoChat EXCEPT !.cookie = cookie, !.session = user, !.user_id = user.sub,
                                 !.conversation_id = conversation_id]
             refused == [c EXCEPT !.raised = "HTTPException", !.handler = "endpoint"]
         IN  IF user = NoToken
             THEN /\ result' = [result EXCEPT ![p] =
                         HttpError(HTTP_401_UNAUTHORIZED, "Not authenticated")]
                  /\ chat' = [chat EXCEPT ![p] = refused]
                  /\ UNCHANGED pc
             ELSE IF ~key
             THEN /\ result' = [result EXCEPT ![p] =
                         HttpError(HTTP_500_INTERNAL_SERVER_ERROR, "OpenAI API key not found")]
                  /\ chat' = [chat EXCEPT ![p] = refused]
                  /\ UNCHANGED pc
             ELSE /\ pc' = [pc EXCEPT ![p] = "cs_get"]
                  /\ chat' = [chat EXCEPT ![p] = c]
                  /\ UNCHANGED result
    /\ UNCHANGED conversations

\* _get_or_create_conversation, lines 41-44 (chat.py:202-209): the lookup
\* under the caller's user_id when the request names a conversation
CsGet(p) ==
    /\ op[p] \in StreamOps /\ pc[p] = "cs_get"
    /\ \E ok \in BOOLEAN :
         LET c == chat[p]
             conversation ==
                 IF c.conversation_id # NoConversationId
                 THEN GetConversationById(conversations, c.conversation_id, c.user_id)
                 ELSE NoDoc
             d == IF c.conversation_id # NoConversationId
                  THEN Logged2(c, RepoCall("find", c, conversation, Len(events[p])))
                  ELSE c
         IN  IF ~ok THEN ChatError(p, "Exception")
             ELSE /\ ChatGoto(p, IF conversation # NoDoc THEN "cs_add_find"
                                 ELSE "cs_create", d, <<>>)
                  /\ UNCHANGED conversations

\* _get_or_create_conversation, lines 44-47, and the conversation_id event
\* (chat_service.py:151-152, chat.py:209-215)
CsCreate(p) ==
    /\ op[p] \in StreamOps /\ pc[p] = "cs_create"
    /\ \E ok \in BOOLEAN :
         LET created == CreateConversation(conversations, chat[p].user_id)
             c == [chat[p] EXCEPT !.conversation_id = created[Len(created)].id,
                                  !.is_new = TRUE]
         IN  IF ~ok THEN ChatError(p, "Exception")
             ELSE /\ conversations' = created
                  /\ ChatGoto(p, "cs_add_find",
                              Logged2(c, RepoCall("insert", c, created[Len(created)],
                                                  Len(events[p]))),
                              <<"conversation_id">>)

\* add_message, lines 43-45: the lookup; None is returned when nothing is
\* found (at = "cs_add_find" for the user message, "cs_reply_find" for the reply)
CsAddFind(p, at, found, missing) ==
    /\ op[p] \in StreamOps /\ pc[p] = at
    /\ \E ok \in BOOLEAN :
         LET c == chat[p]
             conversation == GetConversationById(conversations, c.conversation_id,
                                                 c.user_id)
         IN  IF ~ok THEN ChatError(p, "Exception")
             ELSE /\ ChatGoto(p, IF conversation # NoDoc THEN found ELSE missing,
                              Logged2(c, RepoCall("find", c, conversation,
                                                  Len(events[p]))), <<>>)
                  /\ UNCHANGED conversations

\* add_message, lines 48-57: the update_one with $push (the document read
\* back at line 57 is not used by the caller)
CsAddPush(p, at, call, message, next) ==
    /\ op[p] \in StreamOps /\ pc[p] = at
    /\ \E ok \in BOOLEAN :
         LET c == chat[p]
             conversation == GetConversationById(conversations, c.conversation_id,
                                                 c.user_id)
         IN  IF ~ok THEN ChatError(p, "Exception")
             ELSE /\ conversations' = PushMessage(conversations, c.conversation_id,
                                                  c.user_id, message)
                  /\ ChatGoto(p, next,
                              Logged2(c, RepoCall(call, c, conversation,
                                                  Len(events[p]))), <<>>)

\* chat_service.py:155-156, chat.py:217-219
CsUserFind(p) == CsAddFind(p, "cs_add_find", "cs_add_push", "cs_history")
CsUserPush(p) ==
    CsAddPush(p, "cs_add_push", "push_user", Message("user", UserContent), "cs_history")

\* chat_service.py:159-174, chat.py:221-233: the history is read again;
\* .get on None raises AttributeError when the conversation has gone
CsHistory(p) ==
    /\ op[p] \in StreamOps /\ pc[p] = "cs_history"
    /\ \E ok \in BOOLEAN :
         LET c == chat[p]
             updated_conversation ==
                 GetConversationById(conversations, c.conversation_id, c.user_id)
             d == Logged2(c, RepoCall("find", c, updated_conversation, Len(events[p])))
         IN  IF ~ok THEN ChatError(p, "Exception")
             ELSE IF updated_conversation = NoDoc
             THEN /\ ChatEnd(p, [d EXCEPT !.raised = "AttributeError",
                                          !.handler = "stream"], <<"error">>)
                  /\ UNCHANGED conversations
             ELSE /\ ChatGoto(p, "cs_stream", d, <<>>)
                  /\ UNCHANGED conversations

\* chat_service.py:177-181, chat.py:236-241: a chunk arrives and is yielded
\* unless it is empty, or the stream ends, or it raises
CsStream(p) ==
    /\ op[p] \in StreamOps /\ pc[p] = "cs_stream"
    /\ LET c == chat[p]
       IN  \/ /\ c.chunks < MaxChunks
              /\ \E content \in ChunkContents :
                   ChatGoto(p, "cs_stream",
                            [c EXCEPT !.chunks = @ + 1,
                                      !.full_response =
                                          IF content # <<>> THEN @ \o content ELSE @],
                            IF content # <<>> THEN <<"content">> ELSE <<>>)
              /\ UNCHANGED conversations
           \/ /\ ChatGoto(p, "cs_reply_find", c, <<>>)
              /\ UNCHANGED conversations
           \/ ChatError(p, "Exception")

\* chat_service.py:184-185, chat.py:244-245
CsReplyFind(p) == CsAddFind(p, "cs_reply_find", "cs_reply_push", "cs_count")
CsReplyPush(p) ==
    CsAddPush(p, "cs_reply_push", "push_assistant",
              Message("assistant", chat[p].full_response), "cs_count")

\* "if len(conversation.get("messages", [])) == 2"  (chat_service.py:189,
\* chat.py:249)
TitleDue(messages) == Len(messages) = 2

\* chat_service.py:188-189, chat.py:248-249: the conversation is read again
\* and its messages are counted
CsCount(p) ==
    /\ op[p] \in StreamOps /\ pc[p] = "cs_count"
    /\ \E ok \in BOOLEAN :
         LET c == chat[p]
             conversation ==
                 GetConversationById(conversations, c.conversation_id, c.user_id)
             d == Logged2(c, RepoCall("count", c, conversation, Len(events[p])))
         IN  IF ~ok THEN ChatError(p, "Exception")
             ELSE IF conversation = NoDoc
             THEN /\ ChatEnd(p, [d EXCEPT !.raised = "AttributeError",
                                          !.handler = "stream"], <<"error">>)
                  /\ UNCHANGED conversations
             ELSE /\ ChatGoto(p, IF TitleDue(conversation.messages) THEN "cs_title"
                                 ELSE "cs_done", d, <<>>)
                  /\ UNCHANGED conversations

\* _generate_conversation_title (chat_service.py:69-82) and lines 190-192;
\* chat.py:250-263: the title chain and update_conversation_title run inside
\* a try block of their own; the service yields the title when it is not
\* empty, the endpoint yields whatever the chain gave
CsTitle(p) ==
    /\ op[p] \in StreamOps /\ pc[p] = "cs_title"
    /\ LET c == chat[p]
       IN  \/ /\ ChatGoto(p, "cs_done",
                          [c EXCEPT !.raised = "Exception", !.handler = "title"], <<>>)
              /\ UNCHANGED conversations
           \/ \E new_title \in NewTitles :
                /\ conversations' = UpdateConversationTitle(conversations,
                                        c.conversation_id, c.user_id, new_title)
                /\ ChatGoto(p, "cs_done",
                            Logged2(c, RepoCall("title", c,
                                GetConversationById(conversations, c.conversation_id,
                                                    c.user_id), Len(events[p]))),
                            IF op[p] = "stream_endpoint" \/ new_title # ""
                            THEN <<"title">> ELSE <<>>)

\* chat_service.py:195, chat.py:266: the done event
CsDone(p) ==
    /\ op[p] \in StreamOps /\ pc[p] = "cs_done"
    /\ ChatEnd(p, chat[p], <<"done">>)
    /\ UNCHANGED conversations

(* ------------------------ the conversation endpoints -------------------- *)
\* a handler that makes at most one repository call answers in one step
ConversationEnter(p, o, c, res) ==
    /\ ChatEnter(p, o)
    /\ chat' = [chat EXCEPT ![p] = c]
    /\ result' = [result EXCEPT ![p] = res]
    /\ UNCHANGED pc

\* GET /conversations/metadata  (conversations.py:12-43)
GetConversationMetadata(p) ==
    \E cookie \in ChatCookies :
        LET user == GetCurrentUserFromCookie(cookie, now).payload
            c == [NoChat EXCEPT !.cookie = cookie, !.session = user, !.user_id = user.sub]
            found == GetConversationsByUser(conversations, c.user_id)
        IN  /\ IF user = NoToken
               THEN ConversationEnter(p, "metadata", c,
                        HttpError(HTTP_401_UNAUTHORIZED, "Not authenticated"))
               ELSE ConversationEnter(p, "metadata",
                        [Logged2(c, RepoCall("list", c, NoDoc, 0))
                            EXCEPT !.returned = found], JsonResponse)
            /\ UNCHANGED conversations

\* GET /conversations/{conversation_id}  (conversations.py:45-66)
GetConversation(p) ==
    \E cookie \in ChatCookies, conversation_id \in DOMAIN conversations :
        LET user == GetCurrentUserFromCookie(cookie, now).payload
            c == [NoChat EXCEPT !.cookie = cookie, !.session = user, !.user_id = user.sub,
                                !.conversation_id = conversation_id]
            conversation == GetConversationById(conversations, conversation_id,
                                                c.user_id)
            d == Logged2(c, RepoCall("find", c, conversation, 0))
        IN  /\ IF user = NoToken
               THEN ConversationEnter(p, "read", c,
                        HttpError(HTTP_401_UNAUTHORIZED, "Not authenticated"))
               ELSE IF conversation = NoDoc
               THEN ConversationEnter(p, "read", d,
                        HttpError(404, "Conversation not found"))
               ELSE ConversationEnter(p, "read",
                        [d EXCEPT !.returned = {conversation}], JsonResponse)
            /\ UNCHANGED conversations

\* DELETE /chat  (conversations.py:68-81)
ClearConversation(p) ==
    \E cookie \in ChatCookies, conversation_id \in RequestIds :
        LET user == GetCurrentUserFromCookie(cookie, now).payload
            c == [NoChat EXCEPT !.cookie = cookie, !.session = user, !.user_id = user.sub,
                                !.conversation_id = conversation_id]
            conversation == GetConversationById(conversations, conversation_id,
                                                c.user_id)
        IN  IF user = NoToken
            THEN /\ ConversationEnter(p, "delete", c,
                        HttpError(HTTP_401_UNAUTHORIZED, "Not authenticated"))
                 /\ UNCHANGED conversations
            ELSE IF conversation_id = NoConversationId
            THEN /\ ConversationEnter(p, "delete", c,
                        HttpError(HTTP_400_BAD_REQUEST, "Conversation ID is required"))
                 /\ UNCHANGED conversations
            ELSE /\ conversations' = DeleteConversation(conversations, conversation_id,
                                                        c.user_id)
                 /\ ConversationEnter(p, "delete",
                        Logged2(c, RepoCall("delete", c, conversation, 0)),
                        IF conversation = NoDoc
                        THEN HttpError(404, "Conversation not found")
                        ELSE JsonResponse)

\* a conversation with a first exchange and a title, as a finished chat left it
StoredConversation(id, user_id) ==
    [id |-> id, user_id |-> user_id, title |-> "t",
     messages |-> <<Message("user", UserContent), Message("assistant", <<"a">>)>>]

\* Chat and conversation requests start after earlier chats: nobody, one user
\* or both users have a conversation, and the sessions issued at time 0 are
\* valid or have expired.
InitChat ==
    /\ now \in {0, ACCESS_TOKEN_EXPIRE_MINUTES * 60 + 1}
    /\ ticks = 0
    /\ calls = 0
    /\ oauth_states = [s \in States |-> NoDoc]
    /\ code_verifiers = [s \in States |-> NoDoc]
    /\ users = StoredUsers
    /\ user_records = [u \in Subs |-> 1]
    /\ issued = {}
    /\ handed = [s \in States |-> NoDoc]
    /\ op = [p \in Procs |-> "none"]
    /\ pc = [p \in Procs |-> "idle"]
    /\ locals = [p \in Procs |-> NoLocals]
    /\ result = [p \in Procs |-> NoResult]
    /\ log = [p \in Procs |-> <<>>]
    /\ late = [p \in Procs |-> FALSE]
    /\ sessions = [s \in States |-> 0]
    /\ attempts = [s \in States |-> 0]
    /\ rate_limit_store = [c \in {} |-> <<>>]
    /\ rate_calls = 0
    /\ rate_last = NoCheck
    /\ rate_accepted = [c \in Clients |-> <<>>]
    /\ minted = NoMint
    /\ checked = NoVerification
    /\ environment = "production"
    /\ idcheck = NoIdCheck
    /\ conversations \in {<<>>, <<StoredConversation(1, "u2")>>,
                          <<StoredConversation(1, "u2"), StoredConversation(2, "u1")>>}
    /\ events = [p \in Procs |-> <<>>]
    /\ chat = [p \in Procs |-> NoChat]

\* the steps of a running stream
StreamStep(p) ==
    \/ CsGet(p)
    \/ CsCreate(p)
    \/ CsUserFind(p)
    \/ CsUserPush(p)
    \/ CsHistory(p)
    \/ CsStream(p)
    \/ CsReplyFind(p)
    \/ CsReplyPush(p)
    \/ CsCount(p)
    \/ CsTitle(p)
    \/ CsDone(p)

\* streams of the service run while conversations are deleted
NextChat ==
    \/ \E p \in Procs : ProcessChatStream(p)
    \/ \E p \in Procs : ChatStream(p)
    \/ \E p \in Procs : StreamStep(p)
    \/ \E p \in Procs : ClearConversation(p)

SpecChat == InitChat /\ [][NextChat]_vars

\* chat and conversation requests of two users and of callers without a session
NextIsolation ==
    \/ \E p \in Procs : ChatStream(p)
    \/ \E p \in Procs : StreamStep(p)
    \/ \E p \in Procs : GetConversationMetadata(p)
    \/ \E p \in Procs : GetConversation(p)
    \/ \E p \in Procs : ClearConversation(p)

SpecIsolation == InitChat /\ [][NextIsolation]_vars

(* ======================= properties of the claims ======================= *)
Has(lg, ev) == \E i \in 1..Len(lg) : lg[i] = ev

\* slot p holds a finished callback
Finished(p) == pc[p] = "idle" /\ result[p].kind \in {"session", "error"}

\* the token the callback in slot p has issued so far, if any
IssuedToken(p) == IF pc[p] = "idle" THEN result[p].session_token
                  ELSE locals[p].session_token

\* the log entries that record a request to the provider
ProviderEvents == {"exchange_failed", "exchange_raised", "exchange_ok",
                   "id_token_invalid", "id_token_ok",
                   "user_info_failed", "user_info_ok"}
ProviderContacted(lg) == \E i \in 1..Len(lg) : lg[i] \in ProviderEvents

\* get_oauth_state / get_code_verifier at time t would return None
GetReturnsAbsent(coll, state, t) ==
    LET doc == FindOne(coll, state) IN doc = NoDoc \/ t > doc.expires_at

\* C1: a process_google_callback call that starts after a call with the same
\* state has returned a session token never gets past the state check: it
\* issues no token and ends with HTTP 400 "Invalid or expired state parameter".
C1_SingleUse ==
    \A p \in Procs :
        (op[p] = "callback" /\ late[p]) =>
            /\ IssuedToken(p) = NoToken
            /\ pc[p] \in {"idle", "find_state", "err_delete_state", "err_delete_verifier"}
            /\ ~Has(log[p], "state_valid")
            /\ pc[p] = "idle" =>
                /\ result[p].kind = "error"
                /\ result[p].status_code = 400
                /\ result[p].detail = InvalidStateDetail

\* a late call has finished
C1_Witness ==
    \E p \in Procs : op[p] = "callback" /\ late[p] /\ Finished(p)

\* C2: for every state, at most one process_google_callback invocation
\* returns a session token, whatever the interleaving.
C2_AtMostOnce == \A s \in States : sessions[s] <= 1

\* C3: once a process_google_callback call for state s has finished (with a
\* session, an HTTPException or an unexpected exception), neither collection
\* holds a record keyed by s.
C3_ServicePurges ==
    \A p \in Procs :
        (op[p] = "callback" /\ Finished(p)) =>
            /\ FindOne(oauth_states, locals[p].state) = NoDoc
            /\ FindOne(code_verifiers, locals[p].state) = NoDoc

\* a call for a real state has ended in the handler of unexpected exceptions
C3_Witness ==
    \E p \in Procs :
        /\ op[p] = "callback" /\ Finished(p)
        /\ locals[p].state \in States
        /\ result[p].status_code = 500
        /\ Has(log[p], "verifier_valid")

\* C4: when google_callback_endpoint ends in a failure other than a missing
\* state, the state record and the verifier record of its state are absent.
C4_EndpointPurgesOnFailure ==
    \A p \in Procs :
        (/\ op[p] = "endpoint" /\ Finished(p)
         /\ result[p].kind = "error"
         /\ Has(log[p], "state_valid")) =>
            /\ FindOne(oauth_states, locals[p].state) = NoDoc
            /\ FindOne(code_verifiers, locals[p].state) = NoDoc

\* one step of slot p leaves position at
Leaves(p, at) == pc[p] = at /\ pc'[p] # at

\* slot p is on its way to fail with detail
FailsWith(p, detail) ==
    \/ pc'[p] \in {"err_delete_state", "err_delete_verifier"}
         /\ locals'[p].error = Error(400, detail)
    \/ pc'[p] = "idle" /\ result'[p].kind = "error" /\ result'[p].detail = detail
         /\ result'[p].status_code = 400

\* C5: a read of a state or verifier record at a time greater than the
\* record's expires_at does not return the record: it deletes the record and
\* reports absent (the caller fails as for a missing record).
C5_ExpiryStep ==
    \A p \in Procs :
        LET s == locals[p].state
            sd == FindOne(oauth_states, s)
            vd == FindOne(code_verifiers, s)
        IN  /\ (Leaves(p, "find_state") /\ sd # NoDoc /\ now > sd.expires_at) =>
                  pc'[p] = "expire_state" /\ ~Has(log'[p], "state_valid")
            /\ Leaves(p, "expire_state") =>
                  FindOne(oauth_states', s) = NoDoc /\ FailsWith(p, InvalidStateDetail)
            /\ (Leaves(p, "find_verifier") /\ vd # NoDoc /\ now > vd.expires_at) =>
                  pc'[p] = "expire_verifier" /\ ~Has(log'[p], "verifier_valid")
            /\ Leaves(p, "expire_verifier") =>
                  FindOne(code_verifiers', s) = NoDoc
                  /\ FailsWith(p, InvalidVerifierDetail)
C5_Expiry == [][C5_ExpiryStep]_vars

\* a read found an expired state record, and the call ended as for a missing one
C5_Witness ==
    \E p \in Procs :
        /\ Has(log[p], "state_expired") /\ Finished(p)
        /\ result[p].detail = InvalidStateDetail
        /\ now > STATE_TTL

\* the log entries of a missing or expired state or verifier
InvalidStateEvents == {"state_absent", "state_expired", "verifier_absent",
                       "verifier_expired"}

\* C6 (what a log says): a call that found the state or the verifier absent
\* or expired has contacted no provider endpoint and ends with HTTP 400 and
\* the detail of an invalid state or verifier; the provider is contacted only
\* after both were found valid.
C6_NoProviderContact ==
    \A p \in Procs :
        LET lg == log[p] IN
        op[p] = "callback" =>
            /\ ProviderContacted(lg) =>
                  Has(lg, "state_valid") /\ Has(lg, "verifier_valid")
            /\ (\E i \in 1..Len(lg) : lg[i] \in InvalidStateEvents) =>
                  /\ ~ProviderContacted(lg)
                  /\ IssuedToken(p) = NoToken
                  /\ pc[p] = "idle" =>
                        /\ result[p].kind = "error"
                        /\ result[p].status_code = 400
                        /\ result[p].detail \in {InvalidStateDetail, InvalidVerifierDetail}
                        /\ result[p].detail = InvalidStateDetail <=>
                              ~Has(lg, "state_valid")

\* C6 (what the log rests on): a read that finds no record, or an expired
\* one, is never logged as valid.
C6_ReadStep ==
    \A p \in Procs :
        LET s == locals[p].state
            sd == FindOne(oauth_states, s)
            vd == FindOne(code_verifiers, s)
        IN  /\ (Leaves(p, "find_state") /\ (sd = NoDoc \/ now > sd.expires_at)) =>
                  ~Has(log'[p], "state_valid")
            /\ (Leaves(p, "find_verifier") /\ (vd = NoDoc \/ now > vd.expires_at)) =>
                  ~Has(log'[p], "verifier_valid")

\* C6: process_google_callback fails with HTTP 400 when the state or the
\* verifier record is absent or expired, and then makes no token-exchange
\* request, no ID-token verification and no user-info request.
C6_InvalidStateStops == [][C6_ReadStep]_vars /\ []C6_NoProviderContact

\* a call found the state valid and the verifier missing, and has ended
C6_Witness ==
    \E p \in Procs :
        /\ op[p] = "callback" /\ Finished(p)
        /\ Has(log[p], "state_valid") /\ Has(log[p], "verifier_absent")

\* the ID token and the user-info response of slot p name different subjects
SubjectsDiffer(p) ==
    /\ locals[p].user_id # None
    /\ locals[p].user_data.sub # None
    /\ locals[p].user_id # locals[p].user_data.sub

\* C7: a callback whose ID token verified and whose user-info call succeeded,
\* but with different subjects, writes no user, issues no session token and
\* fails.
C7_IdentityMismatch ==
    \A p \in Procs :
        (op[p] = "callback" /\ SubjectsDiffer(p)) =>
            /\ IssuedToken(p) = NoToken
            /\ ~Has(log[p], "user_written")
            /\ pc[p] \in {"idle", "err_delete_state", "err_delete_verifier"}
            /\ pc[p] = "idle" => result[p].kind = "error"

\* a call with two different subjects has ended
C7_Witness ==
    \E p \in Procs :
        /\ op[p] = "callback" /\ SubjectsDiffer(p) /\ Finished(p)
        /\ Has(log[p], "id_token_ok") /\ Has(log[p], "user_info_ok")

\* the steps a successful callback logs, in the order of the state machine
SuccessLog == <<"state_valid", "verifier_valid", "exchange_ok", "id_token_ok",
                "user_info_ok", "subjects_equal", "user_written", "token_issued">>

\* C8: a session token is issued only after the state was found valid, the
\* verifier was found valid, the exchange succeeded, the ID token verified,
\* the user-info call succeeded and the subjects were found equal, in this
\* order; its sub is the ID-token subject and the user-info subject.
C8_IssuedLast ==
    \A p \in Procs :
        (op[p] = "callback"
         /\ (IssuedToken(p) # NoToken \/ Has(log[p], "token_issued")
             \/ result[p].kind = "session")) =>
            /\ log[p] = SuccessLog
            /\ IssuedToken(p).sub = locals[p].user_id
            /\ IssuedToken(p).sub = locals[p].user_data.sub
            /\ IssuedToken(p).sub \in Subs

\* a callback has returned a session token
C8_Witness ==
    \E p \in Procs :
        op[p] = "callback" /\ Finished(p) /\ result[p].kind = "session"

\* the provider answered every request of the callback in slot p with a
\* well-formed success, and the two subjects it named are the same
ProviderWellBehaved(p) ==
    /\ \A ev \in {"exchange_failed", "exchange_raised", "id_token_invalid",
                  "user_info_failed"} : ~Has(log[p], ev)
    /\ ~SubjectsDiffer(p)

\* the scenario of C9: the only callback ever started with a state that a
\* login handed out, finished within the state's lifetime, a well-behaved
\* provider, and no user with the same e-mail under another id
EndToEndScenario(p) ==
    /\ op[p] = "callback" /\ Finished(p)
    /\ locals[p].state \in States
    /\ attempts[locals[p].state] = 1
    /\ now <= handed[locals[p].state].created_at + STATE_TTL
    /\ ProviderWellBehaved(p)
    /\ ~Has(log[p], "duplicate_key")

\* C9: a login followed by the callback with its state, against a
\* well-behaved provider, returns a session token with the provider's sub and
\* e-mail, and afterwards get_oauth_state and get_code_verifier return absent.
C9_EndToEnd ==
    \A p \in Procs :
        EndToEndScenario(p) =>
            /\ result[p].kind = "session"
            /\ result[p].session_token.sub = locals[p].user_data.sub
            /\ result[p].session_token.sub \in Subs
            /\ result[p].session_token.email = locals[p].user_data.email
            /\ result[p].session_token.email \in Emails
            /\ GetReturnsAbsent(oauth_states, locals[p].state, now)
            /\ GetReturnsAbsent(code_verifiers, locals[p].state, now)

\* the scenario has happened, at the last second of the state's lifetime
C9_Witness ==
    \E p \in Procs :
        /\ EndToEndScenario(p)
        /\ now = handed[locals[p].state].created_at + STATE_TTL
\* the accepted calls of a client that lie in the window ending at time t
InWindow(times, t) == {i \in 1..Len(times) : t - times[i] < RATE_LIMIT_WINDOW}

\* C10: a check_rate_limit call is accepted if and only if fewer than 20
\* calls of the same client were accepted less than 60 s before it; so the
\* first 20 calls of a window are accepted, the 21st is rejected, and a call
\* made when all accepted calls are at least 60 s old is accepted again.
C10_Step ==
    rate_calls' # rate_calls =>
        LET c == rate_last'.client
        IN  /\ rate_last'.at = now
            /\ rate_last'.allowed <=>
                  Cardinality(InWindow(rate_accepted[c], now)) < 20
            /\ Len(rate_accepted[c]) < 20 => rate_last'.allowed
C10_RateLimit == [][C10_Step]_vars

\* a client was rejected with 20 accepted calls in the window, and later, when
\* all of them were 60 s old, accepted again
C10_Witness ==
    \E c \in Clients :
        /\ Len(rate_accepted[c]) = 21
        /\ rate_calls = 22
        /\ rate_accepted[c][20] + RATE_LIMIT_WINDOW = rate_accepted[c][21]
        /\ rate_last.client = c /\ rate_last.allowed

\* the lifetime of a session token in seconds
TokenLifetime == ACCESS_TOKEN_EXPIRE_MINUTES * 60

\* the last verification was of the token last created
CheckedMinted == minted # NoMint /\ checked.input = minted.token

\* C11: a token created by create_access_token from claims C at time t gives
\* back C (with exp = t + 3600) when verify_access_token is called up to
\* t + 3600 - 1, and gives None when it is called at t + 3600 + 1 or later.
C11_RoundTrip ==
    CheckedMinted =>
        /\ checked.at <= minted.at + TokenLifetime - 1 =>
              /\ checked.verified.raised = None
              /\ checked.verified.payload.sub = minted.data.sub
              /\ checked.verified.payload.email = minted.data.email
              /\ checked.verified.payload.name = minted.data.name
              /\ checked.verified.payload.picture = minted.data.picture
              /\ checked.verified.payload.exp = minted.at + 3600
        /\ checked.at >= minted.at + TokenLifetime + 1 =>
              checked.verified = Returned(NoToken)

\* a token created after the start was verified a second before its expiry
C11_Witness ==
    /\ CheckedMinted
    /\ minted.at > 0
    /\ checked.at = minted.at + TokenLifetime - 1
    /\ checked.verified.payload.sub \in Subs

\* a token was verified a second after its expiry
C11_WitnessExpired ==
    /\ CheckedMinted
    /\ checked.at = minted.at + TokenLifetime + 1

\* C12: verify_access_token raises for no string: it returns the claims (for
\* a token signed with the application's key and not expired) or None; and
\* get_current_user_from_cookie returns None for an absent, empty, malformed,
\* wrongly signed or expired cookie value.
C12_NeverRaises ==
    /\ checked.input.form # "none" =>
          /\ checked.verified.raised = None
          /\ checked.verified.payload # NoToken =>
                /\ checked.input.form = "jwt"
                /\ checked.input.key = JWT_SECRET
                /\ checked.verified.payload = checked.input.claims
    /\ checked.user.raised = None
    /\ (\/ checked.input.form # "jwt"
        \/ checked.input.key # JWT_SECRET
        \/ checked.input.claims.exp < checked.at) =>
          checked.user = Returned(NoToken)

\* an expired token, signed with the application's key, was presented
C12_Witness ==
    /\ CheckedMinted
    /\ checked.input.claims.exp < checked.at
    /\ checked.user = Returned(NoToken)

\* base64url_nopad(SHA256(v)), symbolic and injective in v
Base64UrlNoPadSha256(v) == <<"S256", v>>

\* C13: for every state s a login handed out, the code_challenge in its URL
\* is base64url_nopad(SHA256(v)) of the verifier v stored under s, and the
\* code_verifier a callback for s is about to send to the token endpoint is
\* that v, however many logins are in progress.
C13_PkceBinding ==
    /\ \A s \in States :
        (handed[s] # NoDoc /\ code_verifiers[s] # NoDoc) =>
            handed[s].code_challenge =
                Base64UrlNoPadSha256(code_verifiers[s].code_verifier)
    /\ \A p \in Procs :
        (Running(p) /\ pc[p] = "exchange") =>
            LET s == locals[p].state
            IN  /\ s \in States
                /\ handed[s] # NoDoc
                /\ Base64UrlNoPadSha256(locals[p].code_verifier) =
                       handed[s].code_challenge
                /\ code_verifiers[s] # NoDoc =>
                       locals[p].code_verifier = code_verifiers[s].code_verifier

\* a callback is about to send its verifier while the login attempt of
\* another state is still open
C13_Witness ==
    \E p \in Procs, s2 \in States :
        /\ Running(p) /\ pc[p] = "exchange"
        /\ s2 # locals[p].state
        /\ handed[s2] # NoDoc /\ code_verifiers[s2] # NoDoc
        /\ code_verifiers[locals[p].state] # NoDoc

\* slot p holds a request to GET /auth/google-callback that was answered
\* without a session
CallbackFailed(p) == op[p] = "endpoint" /\ Finished(p) /\ result[p].kind = "error"

\* C14: every failing request to GET /auth/google-callback, an exceeded rate
\* limit included, is answered with a redirect to the frontend's login page
\* with an error parameter, never with an HTTP error status.
C14_FailuresRedirect ==
    \A p \in Procs :
        CallbackFailed(p) =>
            /\ result[p].http_status = HTTP_307_TEMPORARY_REDIRECT
            /\ result[p].location = LoginErrorLocation

\* C14 without the rate limiter: every failure the handler body sees is
\* answered with the redirect
C14_BodyFailuresRedirect ==
    \A p \in Procs :
        (CallbackFailed(p) /\ result[p].status_code # HTTP_429_TOO_MANY_REQUESTS) =>
            /\ result[p].http_status = HTTP_307_TEMPORARY_REDIRECT
            /\ result[p].location = LoginErrorLocation

\* C15: a response of GET /auth/google-callback carries the session cookie if
\* and only if the callback issued a session, the cookie then being the
\* issued token; no failing callback and no response of GET /auth/google-login
\* sets a cookie.
C15_CookieOnlyOnSuccess ==
    \A p \in Procs :
        /\ (op[p] = "endpoint" /\ Finished(p)) =>
              /\ result[p].set_cookie # NoToken <=> result[p].kind = "session"
              /\ result[p].kind = "session" =>
                    /\ result[p].set_cookie = result[p].session_token
                    /\ Has(log[p], "token_issued")
        /\ op[p] = "login_endpoint" => result[p].set_cookie = NoToken
        /\ pc[p] # "idle" => result[p].set_cookie = NoToken

\* a request to the callback endpoint, for a state that GET /auth/google-login
\* handed out, was answered with the cookie
C15_Witness ==
    \E p \in Procs :
        /\ op[p] = "endpoint" /\ Finished(p) /\ result[p].kind = "session"
        /\ result[p].set_cookie.sub \in Subs
        /\ handed[locals[p].state].code_challenge # NoChallenge
        /\ rate_last.allowed

\* the callback in slot p ended in an identity failure: its ID token did not
\* verify, or the two subjects differ
IdentityFailure(p) ==
    Finished(p) /\ (Has(log[p], "id_token_invalid") \/ SubjectsDiffer(p))

\* C16: process_google_callback reports an identity failure (ID token not
\* verified, subject mismatch) with status 401, a missing or expired state or
\* verifier with 400, and an unexpected exception with 500.
C16_StatusMapping ==
    \A p \in Procs :
        (op[p] = "callback" /\ Finished(p) /\ result[p].kind = "error") =>
            /\ IdentityFailure(p) => result[p].status_code = HTTP_401_UNAUTHORIZED
            /\ (\E i \in 1..Len(log[p]) : log[p][i] \in InvalidStateEvents) =>
                  result[p].status_code = HTTP_400_BAD_REQUEST
            /\ (Has(log[p], "exchange_raised") \/ Has(log[p], "duplicate_key")) =>
                  result[p].status_code = HTTP_500_INTERNAL_SERVER_ERROR

\* C16 without the identity failures: the statuses the code does report as
\* the claim says
C16_OtherStatuses ==
    \A p \in Procs :
        (op[p] = "callback" /\ Finished(p) /\ result[p].kind = "error") =>
            /\ IdentityFailure(p) => result[p].status_code = HTTP_400_BAD_REQUEST
            /\ (\E i \in 1..Len(log[p]) : log[p][i] \in InvalidStateEvents) =>
                  result[p].status_code = HTTP_400_BAD_REQUEST
            /\ (Has(log[p], "exchange_raised") \/ Has(log[p], "duplicate_key")) =>
                  result[p].status_code = HTTP_500_INTERNAL_SERVER_ERROR

\* slot p holds a finished direct verification
DirectDone(p) == op[p] \in {"direct", "direct_endpoint"} /\ pc[p] = "idle"

\* the provider answered every request of the invocation (no request raised)
ProviderAnswered(lg) ==
    \A ev \in {"tokeninfo_raised", "user_info_raised", "refresh_raised"} : ~Has(lg, ev)

\* C17: a direct verification ends with the profile (200) or with 401; it
\* fails when the token-info call does not succeed, when the audience is not
\* the application's client id and when the user-info call does not succeed;
\* user-info is not requested after an audience mismatch; no cookie is set
\* and no state or verifier record exists afterwards.
C17_DirectVerify ==
    \A p \in Procs :
        (DirectDone(p) /\ ProviderAnswered(log[p])) =>
            /\ \/ result[p].kind = "profile"
               \/ result[p].kind = "error" /\ result[p].status_code = HTTP_401_UNAUTHORIZED
            /\ (\E ev \in {"tokeninfo_failed", "audience_mismatch", "user_info_failed"} :
                    Has(log[p], ev)) => result[p].kind = "error"
            /\ Has(log[p], "audience_mismatch") =>
                  ~Has(log[p], "user_info_ok") /\ ~Has(log[p], "user_info_failed")
            /\ result[p].set_cookie = NoToken
            /\ \A s \in States : oauth_states[s] = NoDoc /\ code_verifiers[s] = NoDoc

\* C17 with the statuses the code answers with: the service reports a failed
\* user-info call with 400, the endpoint reports every failure with 500
C17_DirectVerifyAsCoded ==
    \A p \in Procs :
        DirectDone(p) =>
            /\ \/ result[p].kind = "profile" /\ log[p] = <<"tokeninfo_ok", "user_info_ok">>
               \/ /\ result[p].kind = "error"
                  /\ result[p].status_code =
                        IF op[p] = "direct_endpoint" \/ Has(log[p], "tokeninfo_raised")
                           \/ Has(log[p], "user_info_raised")
                        THEN HTTP_500_INTERNAL_SERVER_ERROR
                        ELSE IF Has(log[p], "user_info_failed")
                        THEN HTTP_400_BAD_REQUEST
                        ELSE HTTP_401_UNAUTHORIZED
            /\ Has(log[p], "audience_mismatch") =>
                  ~Has(log[p], "user_info_ok") /\ ~Has(log[p], "user_info_failed")
            /\ result[p].set_cookie = NoToken

\* slot p holds a finished request to POST /auth/refresh-token
RefreshAnswered(p) == op[p] = "refresh_endpoint" /\ pc[p] = "idle"

\* C18: POST /auth/refresh-token answers 200 with a refreshed cookie when the
\* session is valid, a refresh token is stored and the provider accepts it,
\* and 401 in every other case; the cookie is set only with the 200.
C18_RefreshEndpoint ==
    \A p \in Procs :
        (RefreshAnswered(p) /\ ProviderAnswered(log[p])) =>
            /\ result[p].http_status = HTTP_200_OK <=> Has(log[p], "refresh_ok")
            /\ result[p].http_status # HTTP_200_OK =>
                  result[p].http_status = HTTP_401_UNAUTHORIZED
            /\ result[p].set_cookie # NoToken <=> result[p].http_status = HTTP_200_OK

\* C18 apart from the status of the failures: the 200 and the cookie go with
\* the accepted refresh only
C18_CookieOnlyWith200 ==
    \A p \in Procs :
        RefreshAnswered(p) =>
            /\ result[p].http_status = HTTP_200_OK <=> Has(log[p], "refresh_ok")
            /\ result[p].set_cookie # NoToken <=> result[p].http_status = HTTP_200_OK

\* slot p holds a finished refresh_user_token call
RefreshReturned(p) == op[p] = "refresh" /\ pc[p] = "idle"

\* the log entries that record a request to the provider's token endpoint
RefreshRequested(lg) ==
    \E ev \in {"refresh_ok", "refresh_rejected", "refresh_raised"} : Has(lg, ev)

\* the users collection records no refresh token for the subject
NothingRecorded(sub) == users[sub] = NoDoc \/ users[sub].refresh_token = None

\* C19: refresh_user_token fails with 401 "No refresh token available",
\* without a request to the provider, when no refresh token is recorded for
\* claims.sub; it fails with 401 "Failed to refresh token" when the provider
\* does not answer with success; in both cases it returns no session token.
C19_RefreshFailures ==
    \A p \in Procs :
        op[p] = "refresh" =>
            /\ (locals[p].claims.sub # None
                /\ NothingRecorded(locals[p].claims.sub)
                /\ log[p] # <<>>) =>
                  /\ pc[p] = "idle"
                  /\ result[p] = ErrorResult(Error(401, NoRefreshTokenDetail))
                  /\ ~RefreshRequested(log[p])
            /\ Has(log[p], "refresh_rejected") =>
                  /\ pc[p] = "idle"
                  /\ result[p] = ErrorResult(Error(401, RefreshFailedDetail))
            /\ result[p].kind = "error" => result[p].session_token = NoToken

\* both failures have happened
C19_Witness ==
    \E p, q \in Procs :
        /\ RefreshReturned(p) /\ result[p].detail = NoRefreshTokenDetail
        /\ locals[p].claims.sub \in Subs
        /\ RefreshReturned(q) /\ Has(log[q], "refresh_rejected")

\* C20: the token refresh_user_token returns carries the sub, email, name and
\* picture of the claims it was given, whatever the users collection holds,
\* and exp = time of the refresh + 3600.
C20_RefreshKeepsClaims ==
    \A p \in Procs :
        (RefreshReturned(p) /\ result[p].kind = "session") =>
            LET token == result[p].session_token
                claims == locals[p].claims
            IN  /\ token.sub = claims.sub
                /\ token.email = claims.email
                /\ token.name = claims.name
                /\ token.picture = claims.picture
                /\ token.exp \in {t + 3600 : t \in 0..now}
                /\ Has(log[p], "refresh_ok")

\* C20 (the time): the step that returns the token stamps it with the time of
\* that step plus 60 minutes
C20_ExpStep ==
    \A p \in Procs :
        (op[p] = "refresh" /\ Leaves(p, "rf_post") /\ result'[p].kind = "session") =>
            result'[p].session_token.exp = now + 60 * 60
C20_Refresh == [][C20_ExpStep]_vars /\ []C20_RefreshKeepsClaims

\* a session was refreshed, later than it was issued, for a user whose stored
\* name and picture differ from the claims
C20_Witness ==
    \E p \in Procs :
        /\ RefreshReturned(p) /\ result[p].kind = "session"
        /\ now > 0
        /\ result[p].session_token.exp = now + 3600
        /\ users[locals[p].claims.sub].name # locals[p].claims.name
        /\ users[locals[p].claims.sub].picture # locals[p].claims.picture

\* the token passes every check of the strict mode
StrictlyValid(tok) ==
    /\ tok.wellformed /\ tok.signed /\ ~tok.expired
    /\ tok.iss \in AcceptedIssuers
    /\ tok.aud = GOOGLE_CLIENT_ID

\* C21: Unless the environment flag is set to the explicit non-production
\* value, _verify_id_token is strict, also when the flag is unset: it returns
\* the subject exactly for the tokens whose signature verifies, whose issuer
\* is an accepted one and whose audience is the client id, and refuses every
\* other token with 400 "Invalid ID token".  A token that fails one of these
\* checks is accepted only when the flag has the explicit value.
C21_ModeSelection ==
    idcheck.called =>
        LET tok == idcheck.id_token_jwt
            out == idcheck.outcome
        IN  /\ environment # "development" =>
                /\ StrictlyValid(tok) => out = IdTokenAccepted(tok.sub)
                /\ ~StrictlyValid(tok) => out = IdTokenRefused(InvalidIdTokenDetail)
            /\ (out.user_id # None /\ ~StrictlyValid(tok)) =>
                    environment = "development"
            /\ (environment = "development" /\ tok.wellformed) =>
                    out = IdTokenAccepted(tok.sub)

\* with the flag unset, a token with a wrong signature and nothing else wrong
\* was refused
C21_Witness ==
    /\ environment = None
    /\ idcheck.called
    /\ idcheck.id_token_jwt.wellformed /\ ~idcheck.id_token_jwt.signed
    /\ ~idcheck.id_token_jwt.expired
    /\ idcheck.id_token_jwt.iss \in AcceptedIssuers
    /\ idcheck.id_token_jwt.aud = GOOGLE_CLIENT_ID
    /\ idcheck.outcome = IdTokenRefused(InvalidIdTokenDetail)

\* with the flag set to the explicit value, an unsigned token was accepted
C21_WitnessInsecure ==
    /\ environment = "development"
    /\ idcheck.called
    /\ ~idcheck.id_token_jwt.signed
    /\ idcheck.outcome.user_id = idcheck.id_token_jwt.sub

\* the profile a user document was written from
ProfileOf(doc) == [sub |-> doc.id, email |-> doc.email, name |-> doc.name,
                   picture |-> doc.picture]

\* slot p holds a callback that returned a session token
Succeeded(p) == pc[p] = "idle" /\ op[p] = "callback" /\ result[p].kind = "session"

\* C22: db.users never holds two records with one subject id, and holds one
\* for the subject of every callback that succeeded.  A create_or_update_user
\* call that follows a successful one with the same profile changes nothing:
\* neither directly after it, nor after a refresh token and a system prompt
\* were stored for the user, nor in any state where the stored record has
\* that profile.
C22_UpsertIdempotent ==
    /\ \A u \in Subs :
        /\ user_records[u] <= 1
        /\ users[u] # NoDoc <=> user_records[u] = 1
    /\ \A p \in Procs : Succeeded(p) => user_records[locals[p].user_data.sub] = 1
    /\ \A d \in UserInfoResponses :
        LET first == CreateOrUpdateUser(users, d)
        IN  /\ first.raised = None =>
                /\ CreateOrUpdateUser(first.users, d) = first
                /\ \A r \in RefreshTokens, sp \in SystemPrompts :
                    LET later == SaveUserSystemPrompt(
                                    SaveUserRefreshToken(first.users, d.sub, r),
                                    d.sub, sp)
                    IN  CreateOrUpdateUser(later, d) =
                            [raised |-> None, users |-> later]
            /\ (users[d.sub] # NoDoc /\ ProfileOf(users[d.sub]) = d) =>
                    first = [raised |-> None, users |-> users]

\* two callbacks with the same profile have succeeded, and the record of
\* their subject holds a refresh token and a system prompt
C22_Witness ==
    \E p, q \in Procs :
        /\ p # q /\ Succeeded(p) /\ Succeeded(q)
        /\ locals[p].user_data = locals[q].user_data
        /\ Has(log[p], "user_written") /\ Has(log[q], "user_written")
        /\ users[locals[p].user_data.sub] # NoDoc
        /\ users[locals[p].user_data.sub].refresh_token # None
        /\ users[locals[p].user_data.sub].system_prompt # None
        /\ ProfileOf(users[locals[p].user_data.sub]) = locals[p].user_data

\* two callbacks of one new subject ran create_or_update_user at the same
\* time; the insert_one of the second raised
C22_WitnessRace ==
    \E p, q \in Procs :
        /\ p # q /\ Succeeded(p)
        /\ pc[q] = "idle" /\ Has(log[q], "duplicate_key")
        /\ locals[p].user_data = locals[q].user_data

\* the step is the save_user_refresh_token call of some callback
SavesRefreshToken == \E p \in Procs : pc[p] = "save_refresh_token" /\ pc'[p] # pc[p]

\* C23: A callback whose token set holds a refresh token calls
\* save_user_refresh_token after its user write, and the call stores exactly
\* that token in the record of the user and changes nothing else; a callback
\* whose token set holds none goes on without the call; and no other step,
\* of this or of any other callback, changes a stored refresh token.
C23_RefreshTokenStep ==
    /\ \A p \in Procs :
        LET refresh_token == locals[p].refresh_token
            id == locals[p].user_data.sub
        IN  /\ (pc[p] = "save_refresh_token" /\ pc'[p] # pc[p]) =>
                /\ refresh_token # None
                /\ users[id] # NoDoc
                /\ users' = [users EXCEPT ![id] =
                                [@ EXCEPT !.refresh_token = refresh_token]]
            /\ (pc[p] \in {"upsert_update", "upsert_insert"} /\ pc'[p] # pc[p]) =>
                /\ pc'[p] = "save_refresh_token" =>
                        refresh_token # None /\ users'[id] # NoDoc
                /\ pc'[p] = "delete_state" => refresh_token = None
                /\ pc'[p] \in {"save_refresh_token", "delete_state",
                               "err_delete_state"}
    /\ ~SavesRefreshToken =>
        \A u \in Subs : users[u] # NoDoc =>
            /\ users'[u] # NoDoc
            /\ users'[u].refresh_token = users[u].refresh_token

C23_RefreshToken == [][C23_RefreshTokenStep]_vars

\* two callbacks of one user have stored different refresh tokens, and the
\* record holds the one stored last
C23_Witness ==
    \E p, q \in Procs :
        /\ p # q
        /\ pc[p] \in {"delete_state", "delete_verifier"}
        /\ pc[q] \in {"delete_state", "delete_verifier"}
        /\ locals[p].user_data.sub = locals[q].user_data.sub
        /\ locals[p].refresh_token # None
        /\ locals[q].refresh_token \notin {None, locals[p].refresh_token}
        /\ users[locals[p].user_data.sub].refresh_token = locals[p].refresh_token

\* a callback without a refresh token has written the user, whose record
\* still holds the refresh token of an earlier callback
C23_WitnessKept ==
    \E p \in Procs :
        /\ pc[p] = "delete_state" /\ op[p] = "callback"
        /\ locals[p].refresh_token = None
        /\ Has(log[p], "user_written")
        /\ users[locals[p].user_data.sub] # NoDoc
        /\ users[locals[p].user_data.sub].refresh_token # None

\* C24: Every stored state record expires 600 seconds after the created_at
\* it was saved with.
C24_TtlArithmetic ==
    \A s \in States : oauth_states[s] # NoDoc =>
        oauth_states[s].expires_at = oauth_states[s].created_at + STATE_TTL

\* the step is a save_oauth_state call that repeats the arguments of the
\* call that wrote the record of the state
RepeatsSave ==
    /\ calls' = calls + 1 /\ op'[1] = "save_oauth_state"
    /\ oauth_states[locals'[1].state] # NoDoc
    /\ oauth_states[locals'[1].state].created_at = locals'[1].created_at

\* C25: A save_oauth_state call with the state and the created_at of the
\* stored record leaves oauth_states as it is, whenever it is made.
C25_IdempotentStep == RepeatsSave => oauth_states' = oauth_states

C25_SaveIdempotent == [][C25_IdempotentStep]_vars

\* the step is a clean_expired_oauth_states call
Sweeps == calls' = calls + 1 /\ op'[1] = "clean_expired_oauth_states"

\* C26: A clean_expired_oauth_states call at time t deletes the state
\* records with expires_at < t and no others, leaves the others as they are
\* and returns the number it deleted; every record it deletes is one that
\* get_oauth_state at time t treats as expired, and every record that
\* get_oauth_state still returns at time t survives it.
C26_SweepStep ==
    Sweeps =>
        /\ \A s \in States :
            /\ (oauth_states[s] # NoDoc /\ oauth_states[s].expires_at < now)
                    => oauth_states'[s] = NoDoc
            /\ ~(oauth_states[s] # NoDoc /\ oauth_states[s].expires_at < now)
                    => oauth_states'[s] = oauth_states[s]
            /\ (oauth_states[s] # NoDoc /\ oauth_states'[s] = NoDoc)
                    => IsExpired(oauth_states[s], now)
            /\ (oauth_states[s] # NoDoc /\ ~IsExpired(oauth_states[s], now))
                    => oauth_states'[s] = oauth_states[s]
        /\ result'[1].deleted_count =
                Cardinality({s \in States : oauth_states[s] # NoDoc
                                            /\ oauth_states[s].expires_at < now})
        /\ code_verifiers' = code_verifiers /\ users' = users

C26_SweepExact == [][C26_SweepStep]_vars

\* a sweep has deleted one record and kept another
C26_Witness ==
    /\ op[1] = "clean_expired_oauth_states"
    /\ result[1].deleted_count = 1
    /\ \E s, x \in States : oauth_states[s] # NoDoc /\ oauth_states[x] = NoDoc

\* a sweep has kept a record that expires at the instant of the sweep
C26_WitnessBoundary ==
    /\ op[1] = "clean_expired_oauth_states"
    /\ result[1].deleted_count = 0
    /\ \E s \in States : oauth_states[s] # NoDoc /\ oauth_states[s].expires_at = now

\* no initiate_google_login or process_google_callback call is in progress
Quiescent == \A p \in Procs : pc[p] = "idle"

\* C27: Whenever no login and no callback is in progress, code_verifiers has
\* a record for a state exactly if oauth_states has one.
C27_OneToOne ==
    Quiescent =>
        \A s \in States : code_verifiers[s] # NoDoc <=> oauth_states[s] # NoDoc

\* the sweep of a login removes the verifier of every state it removes
C27_SweepStep ==
    \A p \in Procs :
        (pc[p] = "sweep" /\ pc'[p] = "idle") =>
            \A s \in States :
                (oauth_states[s] # NoDoc /\ oauth_states'[s] = NoDoc)
                    => code_verifiers'[s] = NoDoc

C27_SweepRemovesVerifiers == [][C27_SweepStep]_vars

\* the most recent timestamp is older than the window, or there is none
Stale(timestamps, t) ==
    timestamps = <<>> \/ t - MaxOf(timestamps) > RATE_LIMIT_WINDOW

\* the step is an accepted check that leaves more than RATE_LIMIT_MAX_CLIENTS
\* clients in the table
AcceptedInFullTable ==
    /\ rate_calls' = rate_calls + 1
    /\ rate_last'.allowed
    /\ Cardinality(DOMAIN rate_limit_store \cup {rate_last'.client})
            > RATE_LIMIT_MAX_CLIENTS

\* C28: In both limiters, when an accepted check returns and the table held
\* more than 1000 clients after its append, no client is left in the table
\* whose list is empty or whose most recent timestamp is older than 60 seconds.
C28_PurgeStep ==
    AcceptedInFullTable =>
        \A c \in DOMAIN rate_limit_store' : ~Stale(rate_limit_store'[c], now)

C28_TablePurged == [][C28_PurgeStep]_vars

\* the same, of AuthService.check_rate_limit only
C28_ServicePurgeStep ==
    (AcceptedInFullTable /\ rate_last.limiter = "service") =>
        \A c \in DOMAIN rate_limit_store' : ~Stale(rate_limit_store'[c], now)

C28_ServiceTablePurged == [][C28_ServicePurgeStep]_vars

\* AuthService.check_rate_limit has emptied a table of stale clients
C28_ServiceWitness ==
    /\ rate_last.limiter = "service" /\ rate_last.allowed /\ rate_last.at = now
    /\ now > RATE_LIMIT_WINDOW
    /\ DOMAIN rate_limit_store = {rate_last.client}

\* the timestamps of a list that lie less than a window before time t
Recent(timestamps, t) ==
    SelectSeq(timestamps, LAMBDA x : t - x < RATE_LIMIT_WINDOW)

\* how many accepted calls of client c lie in the window that begins at t
AcceptedFrom(c, t) ==
    Cardinality({i \in 1..Len(rate_accepted[c]) :
                    /\ t <= rate_accepted[c][i]
                    /\ rate_accepted[c][i] < t + RATE_LIMIT_WINDOW})

\* C29: With check_rate_limit calls of one client interleaved at the
\* granularity of the prune, the length test and the append, the list of the
\* client holds every accepted timestamp that is less than 60 s old, and no
\* window of 60 s holds more than 20 accepted calls of the client.
C29_ConcurrentChecks ==
    \A c \in Clients :
        /\ Recent(StoreGet(rate_limit_store, c), now) = Recent(rate_accepted[c], now)
        /\ \A i \in 1..Len(rate_accepted[c]) :
                AcceptedFrom(c, rate_accepted[c][i]) <= RATE_LIMIT_MAX_REQUESTS

\* no accepted timestamp of the window is missing from the list of its client
C29_NothingLost ==
    \A c \in Clients :
        Recent(StoreGet(rate_limit_store, c), now) = Recent(rate_accepted[c], now)

\* two calls of one client have overlapped and both have returned
C29_OverlapWitness ==
    /\ \A p \in Procs : pc[p] = "idle" /\ op[p] = "check_rate_limit"
    /\ locals[1].client_ip = locals[2].client_ip
    /\ Len(rate_accepted[locals[1].client_ip]) > RATE_LIMIT_MAX_REQUESTS

\* C30: Every process_google_callback, verify_google_token_direct and
\* refresh_user_token invocation that has started eventually returns or
\* raises, also when the provider does not answer its request.
C30_Terminates == \A p \in Procs : (pc[p] # "idle") ~> (pc[p] = "idle")

\* an invocation waits for an answer that does not come
C30_Blocked == \E p \in Procs : pc[p] = "blocked"

(* ---- C31 ---- *)
\* the endpoints that carry the dependency check_rate_limit
GuardedOps == {"login_endpoint", "endpoint", "direct_endpoint", "refresh_endpoint"}

\* a request arrives in this step and slot p serves it
Arrives(p) == calls' = calls + 1 /\ Free(p)

\* the check the dependency makes for the client of the arriving request
ArrivalCheck == EndpointCheckRateLimit(rate_limit_store, rate_last'.client, now)

\* C31: every request to the login, callback, verify-google-token and
\* refresh-token endpoints is answered by the rate-limit check first (the
\* check is recorded in the step in which the request arrives, and the body
\* is entered only when it accepted); a rejected request is answered 429,
\* leaves the state, verifier and user records as they were, leaves the body
\* unentered (so no provider endpoint is contacted) and sets no cookie.
C31_GuardStep ==
    \A p \in Procs :
        Arrives(p) =>
            /\ op'[p] \in GuardedOps
            /\ rate_last'.at = now
            /\ rate_last'.allowed = ArrivalCheck.allowed
            /\ rate_limit_store' = ArrivalCheck.store
            /\ pc'[p] # "idle" => rate_last'.allowed
            /\ ~rate_last'.allowed =>
                /\ pc'[p] = "idle"
                /\ UNCHANGED <<store_vars, issued, handed>>
                /\ log'[p] = <<>>
                /\ result'[p].http_status = HTTP_429_TOO_MANY_REQUESTS
                /\ result'[p].set_cookie = NoToken
                /\ result'[p].kind = "error"
C31_RateLimiterGuards == [][C31_GuardStep]_vars

\* a refresh-token request was rejected while a callback was running in the
\* other slot: the slot is idle with the 429 answer and no log
C31_Witness ==
    /\ op[1] = "endpoint" /\ pc[1] # "idle"
    /\ op[2] = "refresh_endpoint" /\ result[2] = TooManyRequests /\ pc[2] = "idle"
    /\ ~rate_last.allowed

\* the same for a rejected login, callback and verify-google-token request
C31_WitnessLogin ==
    op[1] = "login_endpoint" /\ result[1] = TooManyRequests /\ ~rate_last.allowed
C31_WitnessCallback ==
    op[1] = "endpoint" /\ result[1] = TooManyRequests /\ ~rate_last.allowed
C31_WitnessVerify ==
    op[1] = "direct_endpoint" /\ result[1] = TooManyRequests /\ ~rate_last.allowed

(* ---- C32 ---- *)
\* a logout was served after the token was issued and before it was
\* presented last
LoggedOutBetween ==
    \E p \in Procs :
        op[p] = "logout" /\ minted.at < locals[p].now /\ locals[p].now < checked.at

\* the step serves a logout in slot p (it is a request, and neither issues
\* nor verifies a token)
LogsOut(p) ==
    /\ calls' = calls + 1 /\ Free(p) /\ op'[p] = "logout"
    /\ result'[p].kind = "logout"
    /\ minted' = minted /\ checked' = checked

\* the step verifies a presented value (or cannot be told from one that does)
Verifies ==
    /\ calls' = calls + 1 /\ minted' = minted /\ op' = op /\ result' = result
    /\ checked'.at = now /\ checked'.input \in TokenInputs

\* C32: a logout changes nothing on the server (collections, rate-limit table,
\* tokens issued and verified, clock) and answers with the instruction to
\* drop the cookie; and whenever the token issued last is presented, before
\* or after whatever logouts, it verifies with its claims while the time is
\* at most its exp and gives None once the time is past its exp.
C32_LogoutStep ==
    /\ \A p \in Procs :
          LogsOut(p) =>
              /\ UNCHANGED <<now, store_vars, issued, handed, hist_vars, rate_vars,
                             token_vars, env_vars, chat_vars>>
              /\ result'[p].delete_cookie
              /\ result'[p].set_cookie = NoToken
              /\ result'[p].http_status = HTTP_200_OK
    /\ (Verifies /\ minted # NoMint /\ checked'.input = minted.token) =>
          /\ now <= minted.token.claims.exp =>
                /\ checked'.verified = Returned(minted.token.claims)
                /\ checked'.user = Returned(minted.token.claims)
          /\ now > minted.token.claims.exp =>
                /\ checked'.verified = Returned(NoToken)
                /\ checked'.user = Returned(NoToken)
C32_NoSessionState == [][C32_LogoutStep]_vars

\* a token was issued, then a logout was served, then the token was presented
\* again before its exp and verified with its claims
C32_Witness ==
    /\ CheckedMinted
    /\ LoggedOutBetween
    /\ checked.at < minted.token.claims.exp
    /\ checked.user = Returned(minted.token.claims)
    /\ checked.user.payload.sub \in Subs

\* the same, the token being presented after its exp: it gives None
C32_WitnessExpired ==
    /\ CheckedMinted
    /\ LoggedOutBetween
    /\ checked.at > minted.token.claims.exp
    /\ checked.user = Returned(NoToken)

(* ---- C33 ---- *)
\* the positions from which a callback writes to the users collection
WritePcs == {"upsert_update", "upsert_insert", "save_refresh_token"}

\* the callback in slot p takes a step
CallbackMoves(p) == op'[p] = "callback" /\ pc'[p] # pc[p]

\* the callback in slot p has failed without having found the two subjects
\* equal: at the state, the verifier, the exchange, the ID token, the
\* user-info call or the cross-check
EarlyFailure(p) ==
    /\ op[p] = "callback" /\ Finished(p) /\ result[p].kind = "error"
    /\ ~Has(log[p], "subjects_equal")

\* C33: a process_google_callback call writes to the users collection only
\* from its upsert and its refresh-token save, which it reaches only after
\* the subjects were found equal: every other step it takes, and every step
\* of a call whose two subjects differ, leaves every user record and every
\* stored refresh token as it was, and a call that failed up to the
\* cross-check has taken no writing step.
C33_FrameStep ==
    \A p \in Procs :
        CallbackMoves(p) =>
            /\ pc[p] \notin WritePcs => UNCHANGED <<users, user_records>>
            /\ SubjectsDiffer(p) => UNCHANGED <<users, user_records>>
            /\ pc'[p] \in WritePcs =>
                  /\ Has(log'[p], "subjects_equal")
                  /\ locals'[p].user_id = locals'[p].user_data.sub
            /\ (pc'[p] = "idle" /\ result'[p].kind = "error"
                    /\ ~Has(log'[p], "subjects_equal")) =>
                  /\ ~Has(log'[p], "user_written")
                  /\ log'[p] # <<>>
C33_FailedCallbackWritesNothing == [][C33_FrameStep]_vars

\* a callback has failed at the cross-check while the users collection holds
\* a record with a refresh token stored by another call: the record is there
\* as that call left it
C33_Witness ==
    \E p \in Procs :
        /\ EarlyFailure(p) /\ SubjectsDiffer(p)
        /\ \E u \in Subs : users[u] # NoDoc /\ users[u].refresh_token \in RefreshTokens

\* callbacks have failed at each of the earlier steps
C33_WitnessState == \E p \in Procs : EarlyFailure(p) /\ Has(log[p], "state_absent")
C33_WitnessVerifier == \E p \in Procs : EarlyFailure(p) /\ Has(log[p], "verifier_absent")
C33_WitnessExchange == \E p \in Procs : EarlyFailure(p) /\ Has(log[p], "exchange_failed")
C33_WitnessIdToken == \E p \in Procs : EarlyFailure(p) /\ Has(log[p], "id_token_invalid")
C33_WitnessUserInfo == \E p \in Procs : EarlyFailure(p) /\ Has(log[p], "user_info_failed")

(* ---- C34 ---- *)
\* the records of every state but s are the same before and after the step
OthersUntouched(s) ==
    \A x \in States :
        x # s => /\ oauth_states'[x] = oauth_states[x]
                 /\ code_verifiers'[x] = code_verifiers[x]

\* the callback in slot p has returned a session for state s
SucceededFor(p, s) ==
    op[p] = "callback" /\ Finished(p) /\ result[p].kind = "session"
        /\ locals[p].state = s

\* C34: every step of a process_google_callback call for state s, on its
\* successful path and on its failing paths, leaves the state record and the
\* verifier record of every other state unchanged; so whatever a call for s
\* has done, a call for another state started afterwards finds its records
\* (while they have not expired).
C34_IsolationStep ==
    \A p \in Procs :
        CallbackMoves(p) =>
            /\ OthersUntouched(locals'[p].state)
            /\ \A x \in States :
                  (x # locals'[p].state /\ handed[x] # NoDoc /\ attempts[x] = 0) =>
                      /\ oauth_states'[x] = StateDoc(x, handed[x].created_at,
                                                     handed[x].created_at)
                      /\ code_verifiers'[x] # NoDoc
                      /\ GenerateCodeChallenge(code_verifiers'[x].code_verifier)
                            = handed[x].code_challenge
C34_AttemptsDoNotInterfere == [][C34_IsolationStep]_vars

\* a call for one state has failed and purged its records, and a call for
\* the other state, started after it, has returned a session
C34_Witness ==
    \E p, q \in Procs :
        /\ p # q
        /\ op[p] = "callback" /\ Finished(p) /\ result[p].kind = "error"
        /\ result[p].purged /\ locals[p].state \in States
        /\ \E s \in States : s # locals[p].state /\ SucceededFor(q, s)

\* the calls for the two states ran at the same time and both returned a
\* session
C34_WitnessBoth ==
    /\ SucceededFor(1, locals[1].state) /\ SucceededFor(2, locals[2].state)
    /\ locals[1].state # locals[2].state
    /\ \A s \in States : sessions[s] = 1 /\ attempts[s] = 1

(* ---- C35 ---- *)
\* the number of accepted calls of a history in the 60 s that end with its
\* i-th call (times never decrease, so every interval shorter than 60 s
\* holds at most as many accepted calls as one of these)
AcceptedWithin(times, i) ==
    Cardinality({j \in 1..i : times[i] - times[j] < RATE_LIMIT_WINDOW})

\* the answer check_rate_limit(d) would give at time t with this table: the
\* pruned list of d is below the limit (auth_service.py:124-131)
WouldAccept(store, d, t) == ~LimitExceeded(Prune(StoreGet(store, d), t))

\* the times at which the answer given to a client is compared
ProbeTimes == {now} \cup {now + d : d \in RateTimeSteps}

\* C35: after every check_rate_limit call, made by whichever client, every
\* stored list has at most 20 timestamps; a rejected call adds no timestamp
\* (the list of its client is the pruned list); no client had more than 20
\* calls accepted within less than 60 s; and the call changes no answer of
\* another client: whatever the other client asks now or later, it is
\* answered as if the call had not been made, and the call's own answer
\* depends on the accepted calls of its own client only.
C35_WindowStep ==
    rate_calls' # rate_calls =>
        LET c == rate_last'.client
        IN  /\ \A d \in DOMAIN rate_limit_store' :
                  Len(rate_limit_store'[d]) <= RATE_LIMIT_MAX_REQUESTS
            /\ ~rate_last'.allowed =>
                  /\ StoreGet(rate_limit_store', c) = Prune(StoreGet(rate_limit_store, c), now)
                  /\ Len(StoreGet(rate_limit_store', c)) <= Len(StoreGet(rate_limit_store, c))
                  /\ rate_accepted' = rate_accepted
            /\ rate_last'.allowed =>
                  StoreGet(rate_limit_store', c) =
                      Append(Prune(StoreGet(rate_limit_store, c), now), now)
            /\ \A d \in Clients : \A i \in 1..Len(rate_accepted'[d]) :
                  AcceptedWithin(rate_accepted'[d], i) <= RATE_LIMIT_MAX_REQUESTS
            /\ rate_last'.allowed <=>
                  Cardinality(InWindow(rate_accepted[c], now)) < RATE_LIMIT_MAX_REQUESTS
            /\ \A d \in Clients \ {c} :
                  /\ rate_accepted'[d] = rate_accepted[d]
                  /\ \A t \in ProbeTimes :
                        WouldAccept(rate_limit_store', d, t)
                            = WouldAccept(rate_limit_store, d, t)
C35_SlidingWindow == [][C35_WindowStep]_vars

\* both clients have reached the limit within one window, a call of each
\* was rejected, and the table holds 20 timestamps of each
C35_Witness ==
    /\ \A c \in Clients :
          /\ c \in DOMAIN rate_limit_store
          /\ Len(rate_limit_store[c]) = RATE_LIMIT_MAX_REQUESTS
          /\ Len(rate_accepted[c]) = RATE_LIMIT_MAX_REQUESTS
    /\ rate_calls = 4
    /\ ~rate_last.allowed

\* a client at its limit stayed in a table of more than
\* RATE_LIMIT_MAX_CLIENTS clients while the other client was served
C35_WitnessCrowded ==
    /\ Cardinality(DOMAIN rate_limit_store) > RATE_LIMIT_MAX_CLIENTS
    /\ "ip2" \in DOMAIN rate_limit_store
    /\ Len(rate_limit_store["ip2"]) = RATE_LIMIT_MAX_REQUESTS
    /\ rate_last.client = "ip1" /\ rate_last.allowed

(* ---- C36 ---- *)
\* slots p and q hold finished callbacks of one user with one profile
SameUserFinished(p, q) ==
    /\ p # q
    /\ op[p] = "callback" /\ op[q] = "callback"
    /\ Finished(p) /\ Finished(q)
    /\ locals[p].user_data = locals[q].user_data

\* C36: when two callbacks of the same user, who had no record before, have
\* run create_or_update_user in whatever interleaving of their find_one and
\* insert_one / update_one calls, both have returned a session token and
\* exactly one record with the id of the user exists.
C36_ConcurrentFirstLogins ==
    \A p, q \in Procs :
        SameUserFinished(p, q) =>
            /\ Succeeded(p) /\ Succeeded(q)
            /\ user_records[locals[p].user_data.sub] = 1

\* the part of C36 the unique index on id does give: after two callbacks of
\* the same new user have ended, exactly one record with the id exists
C36_ExactlyOneRecord ==
    \A p, q \in Procs :
        SameUserFinished(p, q) =>
            /\ user_records[locals[p].user_data.sub] = 1
            /\ users[locals[p].user_data.sub] # NoDoc
            /\ Succeeded(p) \/ Succeeded(q)

\* two callbacks of one new user ran their find_one before either inserted:
\* one returned a session token, the other ended with status 500
C36_RaceReached ==
    \E p, q \in Procs :
        /\ SameUserFinished(p, q)
        /\ Succeeded(p)
        /\ Has(log[q], "duplicate_key")
        /\ result[q].status_code = HTTP_500_INTERNAL_SERVER_ERROR

(* ---- C37 ---- *)
\* the step presents a value to verify_access_token (or cannot be told from
\* one that does)
Presents ==
    /\ calls' = calls + 1 /\ minted' = minted
    /\ checked'.at = now /\ checked'.input \in TokenInputs

\* C37: verify_access_token returns claims only for the token that
\* create_access_token produced under the secret of this instance, presented
\* while its exp has not passed, and the claims are those of the token; for a
\* token signed under another secret (re-signed by the client, or issued where
\* the secret was generated because none was configured) and for an expired
\* token it returns None, and so does get_current_user_from_cookie.
C37_SoundStep ==
    Presents =>
        LET token == checked'.input
            verified == checked'.verified
        IN  /\ (verified.raised = None /\ verified.payload # NoToken) =>
                  /\ token = minted.token
                  /\ token.form = "jwt" /\ token.key = JWT_SECRET
                  /\ token.claims = CreateAccessToken(minted.data, minted.at)
                  /\ now <= token.claims.exp
                  /\ verified.payload = token.claims
            /\ (token.form = "jwt" /\ token.key # JWT_SECRET) =>
                  /\ verified = Returned(NoToken)
                  /\ checked'.user = Returned(NoToken)
            /\ (token.form = "jwt" /\ token.claims.exp < now) =>
                  /\ verified = Returned(NoToken)
                  /\ checked'.user = Returned(NoToken)
            /\ checked'.user.raised = None
            /\ checked'.user.payload # NoToken => checked'.user = verified
C37_TokenSoundness == [][C37_SoundStep]_vars

\* a token issued by a run whose secret was generated was presented before
\* its exp and gave None
C37_Witness ==
    /\ CheckedMinted
    /\ minted.token.key = OtherSecret
    /\ minted.at < checked.at /\ checked.at < minted.token.claims.exp
    /\ checked.verified = Returned(NoToken)

\* a token issued under the secret of this instance was presented before its
\* exp and gave its claims
C37_WitnessAccepted ==
    /\ CheckedMinted
    /\ minted.token.key = JWT_SECRET
    /\ minted.at < checked.at
    /\ checked.verified = Returned(CreateAccessToken(minted.data, minted.at))

(* ---------------------------------- C38 --------------------------------- *)
\* the place of an event in the order conversation_id, content, title, done
\* (an error event ends a stream as a done event does)
EventRank(e) ==
    CASE e = "conversation_id" -> 0
      [] e = "content" -> 1
      [] e = "title" -> 2
      [] OTHER -> 3
Yielded(evs, e) == \E i \in DOMAIN evs : evs[i] = e
InOrder(evs) ==
    /\ \A i, j \in DOMAIN evs :
          i < j => /\ EventRank(evs[i]) <= EventRank(evs[j])
                   /\ evs[i] = evs[j] => evs[i] = "content"
    /\ \A i \in DOMAIN evs : evs[i] \in {"done", "error"} => i = Len(evs)
\* the generator of slot p was started (the endpoint refuses a request
\* before it makes the generator)
Ran(p) == op[p] \in StreamOps /\ chat[p].handler # "endpoint"
RanOut(p) == Ran(p) /\ pc[p] = "idle"
\* the repository calls of slot p that stored a message
StoredBy(p, call) ==
    {k \in DOMAIN chat[p].repo :
        chat[p].repo[k].call = call /\ chat[p].repo[k].matched}
\* the order of the events, and the events that have a condition
EventsInOrder(p) ==
    /\ InOrder(events[p])
    /\ Yielded(events[p], "conversation_id") <=> chat[p].is_new
    /\ Yielded(events[p], "title") =>
          \E k \in DOMAIN chat[p].repo :
              /\ chat[p].repo[k].call = "count" /\ chat[p].repo[k].messages = 2
              /\ \E j \in StoredBy(p, "push_assistant") : j < k
\* the messages are stored around the content events
StoredAroundContent(p) ==
    /\ Yielded(events[p], "content") =>
          \E k \in StoredBy(p, "push_user") :
              \A i \in DOMAIN events[p] :
                  events[p][i] = "content" => i > chat[p].repo[k].after
    /\ \A k \in DOMAIN chat[p].repo :
          chat[p].repo[k].call = "push_assistant" =>
              \A i \in DOMAIN events[p] :
                  events[p][i] = "content" => i <= chat[p].repo[k].after
    /\ Yielded(events[p], "done") =>
          \E k \in StoredBy(p, "push_assistant") :
              chat[p].repo[k].after < Len(events[p])
\* the run ended with one error event and without a done event
EndedInError(p) ==
    /\ events[p] # <<>>
    /\ events[p][Len(events[p])] = "error"
    /\ Cardinality({i \in DOMAIN events[p] : events[p][i] = "error"}) = 1
    /\ ~Yielded(events[p], "done")

\* C38: the events of every run of process_chat_stream come in the
\* order conversation_id (new conversation only), content events, title (two
\* messages only), done; a run in which an exception occurs ends with a single
\* error event and without done; the user message is stored before the first
\* content event, the reply after the last one and before done.
C38_StreamedEventOrder ==
    \A p \in Procs :
        Ran(p) =>
            /\ EventsInOrder(p)
            /\ StoredAroundContent(p)
            /\ (RanOut(p) /\ chat[p].handler \in {"stream", "caller"}) =>
                   EndedInError(p)
            /\ (RanOut(p) /\ chat[p].handler \notin {"stream", "caller"}) =>
                   events[p][Len(events[p])] = "done"

\* what holds of both generators: the order and the conditions of the events
\* and the places of the two stored messages are as above; a run in which an
\* exception reaches the except clause of the try block ends with a single
\* error event and without done, and a run whose exception is raised before
\* the try block yields no event and makes no repository call.
StreamedEventOrderInTry ==
    \A p \in Procs :
        Ran(p) =>
            /\ EventsInOrder(p)
            /\ StoredAroundContent(p)
            /\ (RanOut(p) /\ chat[p].handler = "stream") => EndedInError(p)
            /\ (RanOut(p) /\ chat[p].handler = "caller") =>
                   events[p] = <<>> /\ chat[p].repo = <<>>
            /\ (RanOut(p) /\ chat[p].handler \notin {"stream", "caller"}) =>
                   events[p][Len(events[p])] = "done"

\* a new conversation streamed two chunks, got its title and was completed
C38_Witness ==
    \E p \in Procs :
        /\ RanOut(p)
        /\ events[p] = <<"conversation_id", "content", "content", "title", "done">>
\* the stream raised after the first chunk of an existing conversation
C38_WitnessError ==
    \E p \in Procs :
        /\ RanOut(p) /\ chat[p].raised = "Exception"
        /\ events[p] = <<"content", "error">>
\* the conversation was deleted while its reply was streamed
C38_WitnessDeleted ==
    \E p \in Procs :
        /\ RanOut(p) /\ chat[p].raised = "AttributeError"
        /\ Yielded(events[p], "content")
        /\ StoredBy(p, "push_user") # {} /\ StoredBy(p, "push_assistant") = {}
\* a later exchange of a conversation is completed without a title
C38_WitnessLater ==
    \E p \in Procs :
        /\ RanOut(p) /\ ~chat[p].is_new
        /\ events[p] = <<"content", "done">>
        /\ \E k \in DOMAIN chat[p].repo :
              chat[p].repo[k].call = "count" /\ chat[p].repo[k].messages = 4
\* the key was missing when the service generator was started
C38_WitnessNoKey ==
    \E p \in Procs :
        RanOut(p) /\ op[p] = "stream" /\ chat[p].handler = "caller"
\* title generation failed and the stream was completed all the same
C38_WitnessTitleFailed ==
    \E p \in Procs :
        /\ RanOut(p) /\ chat[p].handler = "title"
        /\ events[p] = <<"conversation_id", "content", "done">>

(* ---------------------------------- C39 --------------------------------- *)
\* a step of the request in slot p
RequestActs(p) == Arrives(p) \/ chat'[p] # chat[p] \/ pc'[p] # pc[p]
\* the cookie is a session this process signed that has not expired
ValidSession(cookie, t) ==
    cookie.form = "jwt" /\ cookie.key = JWT_SECRET /\ cookie.claims.exp >= t
\* the conversations of the users other than sub, as the step leaves them
OthersKept(sub) ==
    /\ Len(conversations') >= Len(conversations)
    /\ \A i \in DOMAIN conversations :
          (conversations[i] # NoDoc /\ conversations[i].user_id # sub)
              => conversations'[i] = conversations[i]
C39_IsolationStep ==
    \A p \in Procs :
        (RequestActs(p) /\ op'[p] \in {"stream_endpoint", "metadata", "read", "delete"}) =>
            LET c == chat'[p]
                named == FindOne(conversations, chat[p].conversation_id)
            IN  /\ ValidSession(c.cookie, now) => c.session = c.cookie.claims
                /\ \A k \in DOMAIN c.repo :
                      /\ ValidSession(c.cookie, now)
                      /\ c.repo[k].user_id = c.cookie.claims.sub
                /\ \A d \in c.returned : d.user_id = c.cookie.claims.sub
                /\ OthersKept(c.cookie.claims.sub)
                /\ ~ValidSession(c.cookie, now) =>
                      /\ c.repo = <<>> /\ c.returned = {}
                      /\ conversations' = conversations
                      /\ pc'[p] = "idle" /\ events'[p] = <<>>
                      /\ result'[p].http_status = HTTP_401_UNAUTHORIZED
                /\ (pc[p] = "cs_get" /\ pc'[p] # "idle" /\ named # NoDoc
                        /\ named.user_id # c.cookie.claims.sub) =>
                      pc'[p] = "cs_create"
                /\ (pc[p] = "cs_create" /\ pc'[p] # "idle") =>
                      /\ Len(conversations') = Len(conversations) + 1
                      /\ conversations'[Len(conversations')].user_id
                            = c.cookie.claims.sub
                      /\ c.conversation_id = Len(conversations')
                      /\ \A i \in DOMAIN conversations :
                            conversations'[i] = conversations[i]

\* C39: every conversation read, append, retitle and delete of the chat and
\* conversation endpoints is keyed by the conversation id and the sub of the
\* verified session: no request of a user returns, modifies or deletes a
\* conversation of another user, a chat request that names another user's
\* conversation creates a new conversation for the caller and leaves the
\* named one unchanged, and a request without a valid session performs no
\* conversation operation.
C39_ConversationIsolation == [][C39_IsolationStep]_vars

\* a chat of u1 named the conversation of u2 and got a conversation of its
\* own; the conversation of u2 is as it was
C39_Witness ==
    \E p \in Procs :
        /\ op[p] = "stream_endpoint" /\ pc[p] = "idle"
        /\ chat[p].session.sub = "u1" /\ chat[p].is_new
        /\ chat[p].repo[1].call = "find" /\ chat[p].repo[1].conversation_id = 1
        /\ ~chat[p].repo[1].matched
        /\ Yielded(events[p], "done")
        /\ conversations[1] = StoredConversation(1, "u2")
        /\ conversations[chat[p].conversation_id].user_id = "u1"
        /\ Len(conversations[chat[p].conversation_id].messages) = 2
\* u1 asked for the conversation of u2 and was answered 404
C39_WitnessRead ==
    \E p \in Procs :
        /\ op[p] = "read" /\ chat[p].session.sub = "u1"
        /\ chat[p].conversation_id = 1 /\ conversations[1].user_id = "u2"
        /\ result[p].http_status = 404 /\ chat[p].returned = {}
\* u1 tried to delete the conversation of u2, which is still there
C39_WitnessDelete ==
    \E p \in Procs :
        /\ op[p] = "delete" /\ chat[p].session.sub = "u1"
        /\ chat[p].conversation_id = 1 /\ result[p].http_status = 404
        /\ conversations[1] = StoredConversation(1, "u2")
\* a request with a token signed by another key was refused
C39_WitnessForged ==
    \E p \in Procs :
        /\ op[p] = "delete" /\ chat[p].cookie.form = "jwt"
        /\ chat[p].cookie.key = OtherSecret
        /\ result[p].http_status = HTTP_401_UNAUTHORIZED /\ chat[p].repo = <<>>
\* a request with an expired session was refused
C39_WitnessExpired ==
    \E p \in Procs :
        /\ op[p] = "stream_endpoint" /\ chat[p].cookie.key = JWT_SECRET
        /\ chat[p].cookie.claims.exp < now
        /\ result[p].http_status = HTTP_401_UNAUTHORIZED /\ chat[p].repo = <<>>
\* u2 deleted its own conversation; the conversation of u1 is still there
C39_WitnessOwn ==
    \E p \in Procs :
        /\ op[p] = "delete" /\ chat[p].session.sub = "u2"
        /\ result[p].http_status = HTTP_200_OK /\ Len(conversations) = 2
        /\ conversations[1] = NoDoc
        /\ conversations[2] = StoredConversation(2, "u1")
\* u1 listed its conversations and got its own only
C39_WitnessList ==
    \E p \in Procs :
        /\ op[p] = "metadata" /\ chat[p].session.sub = "u1"
        /\ chat[p].returned = {StoredConversation(2, "u1")}
        /\ conversations[1] = StoredConversation(1, "u2")

====
